---- MODULE Spec2Model ----
(***************************************************************************)
(* ClawTaint: taint tracker, URL trust checker, shell restriction engine   *)
(* and the before-tool-call hook that composes them.                       *)
(*                                                                         *)
(* Strings are sequences of one-character strings, so that lower-casing,   *)
(* substring search, trimming and splitting are computed, not assumed.     *)
(* Event timestamps (Date.now()) and the free-text reason of a taint event *)
(* are not part of the model.                                              *)
(***************************************************************************)
EXTENDS Integers, Sequences, FiniteSets, TLC

VARIABLES config, state, call, ret, injectedSessions

vars == <<config, state, call, ret, injectedSessions>>

(***************************************************************************)
(* Bounds                                                                  *)
(***************************************************************************)
MaxCmdLen == 3
MaxEvents == 4
LevelMargin == 1
MaxAccesses == 11
MaxLabels == 4
MaxPatterns == 2
MaxCalls == 3
MaxActivations == 3

(***************************************************************************)
(* JavaScript string primitives                                            *)
(***************************************************************************)
UpperChars == <<"A","B","C","D","E","F","G","H","I","J","K","L","M",
                "N","O","P","Q","R","S","T","U","V","W","X","Y","Z">>
LowerChars == <<"a","b","c","d","e","f","g","h","i","j","k","l","m",
                "n","o","p","q","r","s","t","u","v","w","x","y","z">>

LowerOf == [c \in {UpperChars[i] : i \in 1..Len(UpperChars)} |->
              LowerChars[CHOOSE i \in 1..Len(UpperChars) : UpperChars[i] = c]]

toLowerChar(c) == IF c \in DOMAIN LowerOf THEN LowerOf[c] ELSE c

toLowerCase(s) == [i \in 1..Len(s) |-> toLowerChar(s[i])]

includes(s, p) ==
  \E i \in 0..(Len(s) - Len(p)) : SubSeq(s, i + 1, i + Len(p)) = p

SpaceChars == {" ", "\t", "\n"}

IsSpace(c) == c \in SpaceChars

ChainChars == {";", "&", "|"}

\* length of the longest prefix of s that has no character in stops
PrefixLen(s, stops) ==
  IF \E i \in 1..Len(s) : s[i] \in stops
  THEN (CHOOSE i \in 1..Len(s) :
          /\ s[i] \in stops
          /\ \A j \in 1..(i - 1) : s[j] \notin stops) - 1
  ELSE Len(s)

RECURSIVE trimStart(_)
trimStart(s) ==
  IF s # <<>> /\ IsSpace(Head(s)) THEN trimStart(Tail(s)) ELSE s

RECURSIVE trimEnd(_)
trimEnd(s) ==
  IF s # <<>> /\ IsSpace(s[Len(s)]) THEN trimEnd(SubSeq(s, 1, Len(s) - 1)) ELSE s

trim(s) == trimEnd(trimStart(s))

\* s.split(/[;&|]/)[0]
splitChainFirst(s) == SubSeq(s, 1, PrefixLen(s, ChainChars))

\* s.split(/\s+/)[0]
splitSpaceFirst(s) == SubSeq(s, 1, PrefixLen(s, SpaceChars))

\* the value of an absent optional string (undefined)
NoString == <<"undefined">>

(***************************************************************************)
(* Shell restriction engine (taint/shell-restrictions.ts)                  *)
(***************************************************************************)
Tiers == {"permissive", "cautious", "restricted", "lockdown"}

\* a tier value outside the enum, as an untyped caller could pass it
UnknownTier == "bogus"

\* tier values outside the enum: another word, and a known one in upper case
UnknownTiers == {UnknownTier, "LOCKDOWN"}

\* commandContains that compares letters as they are
commandContains_caseSensitive(command, pattern) == includes(command, pattern)

commandContains(command, pattern) ==
  includes(toLowerCase(command), toLowerCase(pattern))

\* extractBaseCommand that does not cut a command chain
extractBaseCommand_noChainSplit(command) ==
  toLowerCase(splitSpaceFirst(trim(command)))

extractBaseCommand(command) ==
  LET trimmed == trim(command)
      firstCmd == trim(splitChainFirst(trimmed))
  IN  toLowerCase(splitSpaceFirst(firstCmd))

\* isShellTool that accepts a name a configured one begins with
isShellTool_prefix(shell, toolName) ==
  \E i \in 1..Len(shell.toolNames) :
     /\ Len(toolName) <= Len(shell.toolNames[i])
     /\ SubSeq(toLowerCase(shell.toolNames[i]), 1, Len(toolName))
          = toLowerCase(toolName)

isShellTool(shell, toolName) ==
  \E i \in 1..Len(shell.toolNames) :
     toLowerCase(shell.toolNames[i]) = toLowerCase(toolName)

\* a reason is the sequence of the literal and interpolated pieces of the
\* template string the code builds
Lit(text) == [lit |-> text, val |-> <<>>]
Val(v) == [lit |-> "", val |-> v]
NoReason == <<>>

\* index of the first pattern of list contained in command, 0 if none
FirstMatch(command, list) ==
  IF \E i \in 1..Len(list) : commandContains(command, list[i])
  THEN CHOOSE i \in 1..Len(list) :
         /\ commandContains(command, list[i])
         /\ \A j \in 1..(i - 1) : ~commandContains(command, list[j])
  ELSE 0

\* checkTier without its lockdown case: lockdown is handled as restricted
checkTier_noLockdown(shell, command, tier) ==
  LET baseCmd == extractBaseCommand(command)
      isSafe == \E i \in 1..Len(shell.safeCommands) :
         baseCmd = splitSpaceFirst(toLowerCase(shell.safeCommands[i]))
  IN  IF tier \in {"permissive", "cautious"} \/ isSafe
      THEN [allowed |-> TRUE, reason |-> NoReason, tier |-> tier,
            matchedPattern |-> NoString]
      ELSE [allowed |-> FALSE,
            reason |-> <<Lit("Taint level reduced to "), Lit("restricted"),
                         Lit(" tier. Only safe commands are allowed. Command "),
                         Val(baseCmd), Lit(" is not in the safe list.")>>,
            tier |-> tier,
            matchedPattern |-> NoString]

checkTier(shell, command, tier) ==
  CASE tier = "permissive" ->
         [allowed |-> TRUE, reason |-> NoReason, tier |-> tier,
          matchedPattern |-> NoString]
    [] tier = "cautious" ->
         LET d == FirstMatch(command, shell.dangerousCommands) IN
         IF d # 0
         THEN [allowed |-> FALSE,
               reason |-> <<Lit("Taint level reduced to "), Lit("cautious"),
                            Lit(" tier. Dangerous command blocked: "),
                            Val(shell.dangerousCommands[d])>>,
               tier |-> tier,
               matchedPattern |-> shell.dangerousCommands[d]]
         ELSE [allowed |-> TRUE, reason |-> NoReason, tier |-> tier,
               matchedPattern |-> NoString]
    [] tier = "restricted" ->
         LET baseCmd == extractBaseCommand(command)
             isSafe == \E i \in 1..Len(shell.safeCommands) :
                baseCmd = splitSpaceFirst(toLowerCase(shell.safeCommands[i]))
         IN IF isSafe
            THEN [allowed |-> TRUE, reason |-> NoReason, tier |-> tier,
                  matchedPattern |-> NoString]
            ELSE [allowed |-> FALSE,
                  reason |-> <<Lit("Taint level reduced to "), Lit("restricted"),
                               Lit(" tier. Only safe commands are allowed. Command "),
                               Val(baseCmd), Lit(" is not in the safe list.")>>,
                  tier |-> tier,
                  matchedPattern |-> NoString]
    [] tier = "lockdown" ->
         [allowed |-> FALSE,
          reason |-> <<Lit("Taint level critically low - "), Lit("LOCKDOWN"),
                       Lit(". All shell commands are blocked.")>>,
          tier |-> tier,
          matchedPattern |-> NoString]
    [] OTHER ->
         [allowed |-> FALSE,
          reason |-> <<Lit("Unknown restriction tier: "), Lit(tier)>>,
          tier |-> tier,
          matchedPattern |-> NoString]

\* check with the always-blocked scan placed after the permissive shortcut
check_permissiveFirst(shell, command, tier) ==
  LET a == FirstMatch(command, shell.alwaysBlocked) IN
  IF tier = "permissive"
  THEN [allowed |-> TRUE, reason |-> NoReason, tier |-> tier,
        matchedPattern |-> NoString]
  ELSE IF a # 0
  THEN [allowed |-> FALSE,
        reason |-> <<Lit("Command matches always-blocked pattern: "),
                     Val(shell.alwaysBlocked[a])>>,
        tier |-> tier,
        matchedPattern |-> shell.alwaysBlocked[a]]
  ELSE checkTier(shell, command, tier)

\* check that handles a tier it does not know as lockdown
check_unknownAsLockdown(shell, command, tier) ==
  LET a == FirstMatch(command, shell.alwaysBlocked) IN
  IF a # 0
  THEN [allowed |-> FALSE,
        reason |-> <<Lit("Command matches always-blocked pattern: "),
                     Val(shell.alwaysBlocked[a])>>,
        tier |-> tier,
        matchedPattern |-> shell.alwaysBlocked[a]]
  ELSE checkTier(shell, command, IF tier \in Tiers THEN tier ELSE "lockdown")

check(shell, command, tier) ==
  LET a == FirstMatch(command, shell.alwaysBlocked) IN
  IF a # 0
  THEN [allowed |-> FALSE,
        reason |-> <<Lit("Command matches always-blocked pattern: "),
                     Val(shell.alwaysBlocked[a])>>,
        tier |-> tier,
        matchedPattern |-> shell.alwaysBlocked[a]]
  ELSE checkTier(shell, command, tier)

(***************************************************************************)
(* Tool input: a map from field names to values                            *)
(***************************************************************************)
Str(s) == [t |-> "string", s |-> s]

\* a value that is not a string (a number, an array, an object)
NotAString == [t |-> "other", s |-> <<>>]

Undefined == [t |-> "undefined", s |-> <<>>]

Get(toolInput, field) ==
  IF field \in DOMAIN toolInput THEN toolInput[field] ELSE Undefined

\* the result of a helper that found nothing (null)
Null == <<"null">>

startsWith(s, p) == Len(s) >= Len(p) /\ SubSeq(s, 1, Len(p)) = p

\* length of the longest prefix of s made only of characters in set
LeadingLen(s, set) ==
  IF \E i \in 1..Len(s) : s[i] \notin set
  THEN (CHOOSE i \in 1..Len(s) :
          /\ s[i] \notin set
          /\ \A j \in 1..(i - 1) : s[j] \in set) - 1
  ELSE Len(s)

\* index of the last occurrence of c in s, 0 if none
LastIndexOf(s, c) ==
  IF \E i \in 1..Len(s) : s[i] = c
  THEN CHOOSE i \in 1..Len(s) : s[i] = c /\ \A j \in (i + 1)..Len(s) : s[j] # c
  ELSE 0

(***************************************************************************)
(* URL trust checker (taint/url-trust.ts)                                  *)
(***************************************************************************)
Http == <<"h","t","t","p",":","/","/">>

Https == <<"h","t","t","p","s",":","/","/">>

\* what ends the authority of an http(s) URL
AuthorityEnd == {"/", "\\", "?", "#"}

\* code points the URL parser rejects in a host
ForbiddenHostChars ==
  {" ", "\t", "\n", "#", "/", ":", "<", ">", "?", "@", "[", "\\", "]", "^", "|", "%"}

Digits == {"0", "1", "2", "3", "4", "5", "6", "7", "8", "9"}

\* new URL(u).hostname for u beginning with http:// or https://, Null when the
\* parser throws: slashes after the scheme are skipped, the authority ends at
\* a slash, backslash, ? or #, credentials end at the last @, the port follows the first
\* colon and is made of digits, the host is not empty and has no forbidden
\* code point.  Hosts are names of letters and dots: IDNA, percent-decoding
\* and numeric (IPv4, IPv6) hosts are outside the inputs of the model.
hostname(u) ==
  LET rest == IF startsWith(u, Https) THEN SubSeq(u, Len(Https) + 1, Len(u))
              ELSE SubSeq(u, Len(Http) + 1, Len(u))
      skipped == SubSeq(rest, LeadingLen(rest, {"/", "\\"}) + 1, Len(rest))
      authority == SubSeq(skipped, 1, PrefixLen(skipped, AuthorityEnd))
      hostPort == SubSeq(authority, LastIndexOf(authority, "@") + 1, Len(authority))
      host == SubSeq(hostPort, 1, PrefixLen(hostPort, {":"}))
      port == SubSeq(hostPort, Len(host) + 2, Len(hostPort))
  IN  IF \/ host = <<>>
         \/ \E i \in 1..Len(host) : host[i] \in ForbiddenHostChars
         \/ \E i \in 1..Len(port) : port[i] \notin Digits
      THEN Null
      ELSE toLowerCase(host)

extractDomain(url) ==
  LET normalizedUrl == IF ~startsWith(url, Http) /\ ~startsWith(url, Https)
                       THEN Https \o url ELSE url
      parsed == hostname(normalizedUrl)
  IN  IF parsed = Null THEN Null ELSE toLowerCase(parsed)

urlFields == <<"url", "href", "link", "target", "src", "source", "uri", "endpoint">>

urlCommandFields == <<"command", "cmd", "script", "input">>

\* the class of characters a URL match runs over: not whitespace, not a
\* quote, not an angle bracket (no input of the model has a back quote)
IsUrlChar(c) == c \notin (SpaceChars \cup {"\"", "'", "<", ">"})

\* value.match(/https?:\/\/[^...]+/): the leftmost match, Null if none
matchUrl(value) ==
  LET schemeLen(i) ==
        IF startsWith(SubSeq(value, i, Len(value)), Https) THEN Len(Https)
        ELSE IF startsWith(SubSeq(value, i, Len(value)), Http) THEN Len(Http)
        ELSE 0
      starts == {i \in 1..Len(value) :
                   /\ schemeLen(i) > 0
                   /\ i + schemeLen(i) <= Len(value)
                   /\ IsUrlChar(value[i + schemeLen(i)])}
  IN  IF starts = {} THEN Null
      ELSE LET i == CHOOSE k \in starts : \A j \in starts : k <= j
               tail == SubSeq(value, i + schemeLen(i), Len(value))
               n == LeadingLen(tail, {tail[k] : k \in {j \in 1..Len(tail) : IsUrlChar(tail[j])}})
           IN  SubSeq(value, i, i + schemeLen(i) + n - 1)

\* extractUrlFromContext that scans the command fields first
extractUrlFromContext_commandFirst(toolInput) ==
  LET direct == {i \in 1..Len(urlFields) :
                   /\ Get(toolInput, urlFields[i]).t = "string"
                   /\ Len(Get(toolInput, urlFields[i]).s) > 0}
      nested == {i \in 1..Len(urlCommandFields) :
                   /\ Get(toolInput, urlCommandFields[i]).t = "string"
                   /\ matchUrl(Get(toolInput, urlCommandFields[i]).s) # Null}
  IN  IF nested # {}
      THEN matchUrl(Get(toolInput,
                        urlCommandFields[CHOOSE i \in nested : \A j \in nested : i <= j]).s)
      ELSE IF direct # {}
      THEN Get(toolInput, urlFields[CHOOSE i \in direct : \A j \in direct : i <= j]).s
      ELSE Null

extractUrlFromContext(toolInput) ==
  LET direct == {i \in 1..Len(urlFields) :
                   /\ Get(toolInput, urlFields[i]).t = "string"
                   /\ Len(Get(toolInput, urlFields[i]).s) > 0}
      nested == {i \in 1..Len(urlCommandFields) :
                   /\ Get(toolInput, urlCommandFields[i]).t = "string"
                   /\ matchUrl(Get(toolInput, urlCommandFields[i]).s) # Null}
  IN  IF direct # {}
      THEN Get(toolInput, urlFields[CHOOSE i \in direct : \A j \in direct : i <= j]).s
      ELSE IF nested # {}
      THEN matchUrl(Get(toolInput,
                        urlCommandFields[CHOOSE i \in nested : \A j \in nested : i <= j]).s)
      ELSE Null

\* the regular expression globToRegex builds, as the sequence of its atoms:
\* "any" is .* , "segment" is [^.]* , "one" is . , "char" is a literal
RECURSIVE globAtoms(_, _)
globAtoms(pattern, i) ==
  IF i > Len(pattern) THEN <<>>
  ELSE IF pattern[i] = "*"
  THEN IF i + 1 <= Len(pattern) /\ pattern[i + 1] = "*"
       THEN <<[kind |-> "any", ch |-> ""]>> \o globAtoms(pattern, i + 2)
       ELSE <<[kind |-> "segment", ch |-> ""]>> \o globAtoms(pattern, i + 1)
  ELSE IF pattern[i] = "?"
  THEN <<[kind |-> "one", ch |-> ""]>> \o globAtoms(pattern, i + 1)
  ELSE <<[kind |-> "char", ch |-> pattern[i]]>> \o globAtoms(pattern, i + 1)

globToRegex(pattern) == globAtoms(pattern, 1)

\* regex.test(s) for the anchored, case-insensitive expression ^atoms$
RECURSIVE regexTest(_, _)
regexTest(atoms, s) ==
  IF atoms = <<>> THEN s = <<>>
  ELSE LET a == Head(atoms) IN
       CASE a.kind = "char" ->
              /\ s # <<>>
              /\ toLowerChar(Head(s)) = toLowerChar(a.ch)
              /\ regexTest(Tail(atoms), Tail(s))
         [] a.kind = "one" ->
              /\ s # <<>>
              /\ Head(s) # "\n"
              /\ regexTest(Tail(atoms), Tail(s))
         [] a.kind = "segment" ->
              \E k \in 0..Len(s) :
                 /\ \A j \in 1..k : s[j] # "."
                 /\ regexTest(Tail(atoms), SubSeq(s, k + 1, Len(s)))
         [] a.kind = "any" ->
              \E k \in 0..Len(s) :
                 /\ \A j \in 1..k : s[j] # "\n"
                 /\ regexTest(Tail(atoms), SubSeq(s, k + 1, Len(s)))

matchesGlobPattern(domain, pattern) == regexTest(globToRegex(pattern), domain)

isDomainTrusted(trustedUrls, domain) ==
  \E i \in 1..Len(trustedUrls.patterns) :
     matchesGlobPattern(domain, trustedUrls.patterns[i])

\* index of the first pattern that matches the domain, 0 when none does
\* (the for loop of check, lines 167-178)
RECURSIVE firstTrustedPattern(_, _, _)
firstTrustedPattern(patterns, domain, i) ==
  IF i > Len(patterns) THEN 0
  ELSE IF matchesGlobPattern(domain, patterns[i]) THEN i
  ELSE firstTrustedPattern(patterns, domain, i + 1)

\* check that stops looking after the first pattern
checkTrusted_firstOnly(trustedUrls, url, domain, i) ==
  IF i = 1
  THEN [urlFound |-> TRUE, url |-> url, domain |-> domain,
        trusted |-> TRUE, matchedPattern |-> trustedUrls.patterns[i]]
  ELSE [urlFound |-> TRUE, url |-> url, domain |-> domain,
        trusted |-> FALSE, matchedPattern |-> NoString]

\* check, lines 167-181: the URL has a domain
checkTrusted(trustedUrls, url, domain, i) ==
  IF i # 0
  THEN [urlFound |-> TRUE, url |-> url, domain |-> domain,
        trusted |-> TRUE, matchedPattern |-> trustedUrls.patterns[i]]
  ELSE [urlFound |-> TRUE, url |-> url, domain |-> domain,
        trusted |-> FALSE, matchedPattern |-> NoString]

\* check that takes a URL without a parseable host for trusted
checkDomain_unparseableTrusted(trustedUrls, url, domain) ==
  IF domain = Null
  THEN [urlFound |-> TRUE, url |-> url, domain |-> NoString,
        trusted |-> TRUE, matchedPattern |-> NoString]
  ELSE checkTrusted(trustedUrls, url, domain,
                    firstTrustedPattern(trustedUrls.patterns, domain, 1))

\* check, lines 159-181: a URL was found
checkDomain(trustedUrls, url, domain) ==
  IF domain = Null
  THEN [urlFound |-> TRUE, url |-> url, domain |-> NoString,
        trusted |-> FALSE, matchedPattern |-> NoString]
  ELSE checkTrusted(trustedUrls, url, domain,
                    firstTrustedPattern(trustedUrls.patterns, domain, 1))

\* check, lines 154-181
checkUrl(trustedUrls, url) ==
  IF url = Null
  THEN [urlFound |-> FALSE, url |-> NoString, domain |-> NoString,
        trusted |-> TRUE, matchedPattern |-> NoString]
  ELSE checkDomain(trustedUrls, url, extractDomain(url))

urlCheck(trustedUrls, toolInput) ==
  checkUrl(trustedUrls, extractUrlFromContext(toolInput))

(***************************************************************************)
(* Taint tracker (taint/tracker.ts)                                        *)
(***************************************************************************)
Max(a, b) == IF a >= b THEN a ELSE b

Min(a, b) == IF a <= b THEN a ELSE b

\* [...thresholds].sort((a, b) => b.minTaint - a.minTaint): stable, descending
RECURSIVE sortByMinTaintDesc(_)
sortByMinTaintDesc(thresholds) ==
  IF thresholds = <<>> THEN <<>>
  ELSE LET n == Len(thresholds)
           x == thresholds[n]
           rest == sortByMinTaintDesc(SubSeq(thresholds, 1, n - 1))
           \* x goes after every earlier element that is not smaller
           k == Cardinality({i \in 1..Len(rest) : rest[i].minTaint >= x.minTaint})
       IN  SubSeq(rest, 1, k) \o <<x>> \o SubSeq(rest, k + 1, Len(rest))

\* resolveTier with an exclusive upper end (level < threshold.maxTaint)
resolveTier_exclusiveMax(level, thresholds) ==
  LET sorted == sortByMinTaintDesc(thresholds)
      hits == {i \in 1..Len(sorted) :
                 level >= sorted[i].minTaint /\ level < sorted[i].maxTaint}
  IN  IF hits # {}
      THEN sorted[CHOOSE i \in hits : \A j \in hits : i <= j].tier
      ELSE IF level <= 0 THEN "lockdown" ELSE "permissive"

\* resolveTier without the level <= 0 test of its fallback
resolveTier_fallbackPermissive(level, thresholds) ==
  LET sorted == sortByMinTaintDesc(thresholds)
      hits == {i \in 1..Len(sorted) :
                 level >= sorted[i].minTaint /\ level <= sorted[i].maxTaint}
  IN  IF hits # {}
      THEN sorted[CHOOSE i \in hits : \A j \in hits : i <= j].tier
      ELSE "permissive"

resolveTier(level, thresholds) ==
  LET sorted == sortByMinTaintDesc(thresholds)
      hits == {i \in 1..Len(sorted) :
                 level >= sorted[i].minTaint /\ level <= sorted[i].maxTaint}
  IN  IF hits # {}
      THEN sorted[CHOOSE i \in hits : \A j \in hits : i <= j].tier
      ELSE IF level <= 0 THEN "lockdown" ELSE "permissive"

createTaintTracker(taint) ==
  [level |-> taint.initialLevel,
   tier |-> resolveTier(taint.initialLevel, taint.thresholds),
   events |-> <<>>]

\* clampLevel without the floor
clampLevel_noFloor(taint, level) == Min(100, level)

clampLevel(taint, level) == Max(taint.minimumLevel, Min(100, level))

\* applyPenalty that keeps the tier it found
applyPenalty_staleTier(taint, st) ==
  LET newLevel == clampLevel(taint, st.level - taint.penaltyPerUntrustedUrl)
      event == [type |-> "penalty",
                amount |-> taint.penaltyPerUntrustedUrl,
                previousLevel |-> st.level,
                newLevel |-> newLevel,
                tier |-> st.tier]
  IN  [state |-> [level |-> newLevel, tier |-> st.tier,
                  events |-> Append(st.events, event)],
       event |-> event]

\* applyPenalty that reads previousLevel after it has assigned the level
applyPenalty_previousAfterUpdate(taint, st) ==
  LET newLevel == clampLevel(taint, st.level - taint.penaltyPerUntrustedUrl)
      newTier == resolveTier(newLevel, taint.thresholds)
      event == [type |-> "penalty",
                amount |-> taint.penaltyPerUntrustedUrl,
                previousLevel |-> newLevel,
                newLevel |-> newLevel,
                tier |-> newTier]
  IN  [state |-> [level |-> newLevel, tier |-> newTier,
                  events |-> Append(st.events, event)],
       event |-> event]

\* the tracker operations return the new tracker state and the event
applyPenalty(taint, st) ==
  LET previousLevel == st.level
      newLevel == clampLevel(taint, st.level - taint.penaltyPerUntrustedUrl)
      newTier == resolveTier(newLevel, taint.thresholds)
      event == [type |-> "penalty",
                amount |-> taint.penaltyPerUntrustedUrl,
                previousLevel |-> previousLevel,
                newLevel |-> newLevel,
                tier |-> newTier]
  IN  [state |-> [level |-> newLevel, tier |-> newTier,
                  events |-> Append(st.events, event)],
       event |-> event]

\* applyRecovery that takes a recovery of 0 for an absent one and falls back
\* to 5 (recoveryPerTrustedUrl || 5)
applyRecovery_defaultAmount(taint, st) ==
  LET amount == IF taint.recoveryPerTrustedUrl = 0
                THEN 5 ELSE taint.recoveryPerTrustedUrl
      newLevel == clampLevel(taint, st.level + amount)
      newTier == resolveTier(newLevel, taint.thresholds)
      event == [type |-> "recovery",
                amount |-> amount,
                previousLevel |-> st.level,
                newLevel |-> newLevel,
                tier |-> newTier]
  IN  [state |-> [level |-> newLevel, tier |-> newTier,
                  events |-> Append(st.events, event)],
       event |-> event]

\* applyRecovery that keeps the tier it found
applyRecovery_staleTier(taint, st) ==
  IF taint.recoveryPerTrustedUrl = 0
  THEN [state |-> st,
        event |-> [type |-> "recovery", amount |-> 0,
                   previousLevel |-> st.level, newLevel |-> st.level,
                   tier |-> st.tier]]
  ELSE LET newLevel == clampLevel(taint, st.level + taint.recoveryPerTrustedUrl)
           event == [type |-> "recovery",
                     amount |-> taint.recoveryPerTrustedUrl,
                     previousLevel |-> st.level,
                     newLevel |-> newLevel,
                     tier |-> st.tier]
       IN  [state |-> [level |-> newLevel, tier |-> st.tier,
                       events |-> Append(st.events, event)],
            event |-> event]

applyRecovery(taint, st) ==
  IF taint.recoveryPerTrustedUrl = 0
  THEN [state |-> st,
        event |-> [type |-> "recovery", amount |-> 0,
                   previousLevel |-> st.level, newLevel |-> st.level,
                   tier |-> st.tier]]
  ELSE LET previousLevel == st.level
           newLevel == clampLevel(taint, st.level + taint.recoveryPerTrustedUrl)
           newTier == resolveTier(newLevel, taint.thresholds)
           event == [type |-> "recovery",
                     amount |-> taint.recoveryPerTrustedUrl,
                     previousLevel |-> previousLevel,
                     newLevel |-> newLevel,
                     tier |-> newTier]
       IN  [state |-> [level |-> newLevel, tier |-> newTier,
                       events |-> Append(st.events, event)],
            event |-> event]

\* reset that leaves the history in place
reset_keepsHistory(taint, st) ==
  [level |-> taint.initialLevel,
   tier |-> resolveTier(taint.initialLevel, taint.thresholds),
   events |-> st.events]

reset(taint, st) ==
  [level |-> taint.initialLevel,
   tier |-> resolveTier(taint.initialLevel, taint.thresholds),
   events |-> <<>>]

\* getState: a new object with the level and tier copied and a new list that
\* holds the tracker's own event objects; an event object is named by its
\* position in the tracker's list, which never changes while nothing resets
getState(st) ==
  [level |-> st.level,
   tier |-> st.tier,
   events |-> [i \in 1..Len(st.events) |-> i]]

getLevel == state.level

getTier == state.tier

(***************************************************************************)
(* before-tool-call hook (hooks/before-tool-call/handler.ts)               *)
(***************************************************************************)
commandFields == <<"command", "cmd", "script", "input", "code", "content">>

extractCommand(toolInput) ==
  LET found == {i \in 1..Len(commandFields) :
                  /\ Get(toolInput, commandFields[i]).t = "string"
                  /\ Len(trim(Get(toolInput, commandFields[i]).s)) > 0}
  IN  IF found # {}
      THEN trim(Get(toolInput,
                    commandFields[CHOOSE i \in found : \A j \in found : i <= j]).s)
      ELSE Null

NoMetadata ==
  [category |-> "none", severity |-> "none", reason |-> NoReason,
   taintLevel |-> -1, tier |-> "none"]

\* { block: false }
Allow == [block |-> FALSE, blockReason |-> NoReason, metadata |-> NoMetadata]

\* a blocking result for a refused shell command
Block(shellCheck, currentTier, level) ==
  [block |-> TRUE,
   blockReason |-> shellCheck.reason,
   metadata |-> [category |-> "shell-restriction",
                 severity |-> IF currentTier = "lockdown" THEN "critical" ELSE "high",
                 reason |-> shellCheck.reason,
                 taintLevel |-> level,
                 tier |-> currentTier]]

\* step 2 with a penalty also when no URL was found
updateTaint_penalizeAbsent(cfg, st, u) ==
  IF u.urlFound /\ u.trusted
  THEN [state |-> applyRecovery(cfg.taint, st).state,
        trackerCalls |-> <<"applyRecovery">>]
  ELSE [state |-> applyPenalty(cfg.taint, st).state,
        trackerCalls |-> <<"applyPenalty">>]

\* step 2 with the penalty applied a second time
updateTaint_penaltyTwice(cfg, st, u) ==
  IF ~u.urlFound
  THEN [state |-> st, trackerCalls |-> <<>>]
  ELSE IF u.trusted
  THEN [state |-> applyRecovery(cfg.taint, st).state,
        trackerCalls |-> <<"applyRecovery">>]
  ELSE [state |-> applyPenalty(cfg.taint, applyPenalty(cfg.taint, st).state).state,
        trackerCalls |-> <<"applyPenalty", "applyPenalty">>]

\* step 2 of the handler: the tracker state it leaves and the tracker
\* operations it invoked, in order
updateTaint(cfg, st, u) ==
  IF ~u.urlFound
  THEN [state |-> st, trackerCalls |-> <<>>]
  ELSE IF u.trusted
  THEN [state |-> applyRecovery(cfg.taint, st).state,
        trackerCalls |-> <<"applyRecovery">>]
  ELSE [state |-> applyPenalty(cfg.taint, st).state,
        trackerCalls |-> <<"applyPenalty">>]

\* the handler with the tier read before step 2
beforeToolCall_tierReadFirst(cfg, st, context) ==
  LET upd == updateTaint(cfg, st, urlCheck(cfg.trustedUrls, context.toolInput))
      command == extractCommand(context.toolInput)
      currentTier == st.tier
      shellCheck == check(cfg.shellRestrictions, command, currentTier)
  IN  IF ~cfg.global.enabled
      THEN [state |-> st, result |-> Allow, trackerCalls |-> <<>>]
      ELSE IF /\ isShellTool(cfg.shellRestrictions, context.toolName)
              /\ command # Null
              /\ ~shellCheck.allowed
      THEN [state |-> upd.state,
            result |-> Block(shellCheck, currentTier, upd.state.level),
            trackerCalls |-> upd.trackerCalls]
      ELSE [state |-> upd.state, result |-> Allow,
            trackerCalls |-> upd.trackerCalls]

\* the handler returns its result; the model also returns the tracker state it
\* leaves and the tracker operations it invoked
beforeToolCall(cfg, st, context) ==
  LET upd == updateTaint(cfg, st, urlCheck(cfg.trustedUrls, context.toolInput))
      command == extractCommand(context.toolInput)
      currentTier == upd.state.tier
      shellCheck == check(cfg.shellRestrictions, command, currentTier)
  IN  IF ~cfg.global.enabled
      THEN [state |-> st, result |-> Allow, trackerCalls |-> <<>>]
      ELSE IF /\ isShellTool(cfg.shellRestrictions, context.toolName)
              /\ command # Null
              /\ ~shellCheck.allowed
      THEN [state |-> upd.state,
            result |-> Block(shellCheck, currentTier, upd.state.level),
            trackerCalls |-> upd.trackerCalls]
      ELSE [state |-> upd.state, result |-> Allow,
            trackerCalls |-> upd.trackerCalls]

\* a context that is null or undefined: reading a property of it throws
NullContext == [isNull |-> TRUE]

IsNull(context) == "isNull" \in DOMAIN context

\* context.toolInput || context.params || {}
toolInputOf(context) ==
  IF "toolInput" \in DOMAIN context THEN context.toolInput
  ELSE IF "params" \in DOMAIN context THEN context.params
  ELSE [f \in {} |-> Undefined]

\* the name the steps see; only isShellTool reads it, and for a context
\* without one it throws there (toolName.toLowerCase()), after the URL step
toolNameOf(context) ==
  IF "toolName" \in DOMAIN context THEN context.toolName ELSE <<>>

\* what the promise settles to once the steps r have run: threw tells that
\* isShellTool threw after them, catches that the body is inside try
settle(r, threw, catches) ==
  [state |-> r.state,
   result |-> IF threw THEN Allow ELSE r.result,
   trackerCalls |-> r.trackerCalls,
   outcome |-> IF threw /\ ~catches THEN "rejected" ELSE "resolved",
   caught |-> threw /\ catches]

\* the handler without its try and catch: what throws rejects the promise
beforeToolCallHandler_noCatch(cfg, st, context) ==
  IF IsNull(context)
  THEN [state |-> st, result |-> Allow, trackerCalls |-> <<>>,
        outcome |-> "rejected", caught |-> FALSE]
  ELSE IF ~cfg.global.enabled
  THEN [state |-> st, result |-> Allow, trackerCalls |-> <<>>,
        outcome |-> "resolved", caught |-> FALSE]
  ELSE settle(beforeToolCall(cfg, st,
                [toolName |-> toolNameOf(context),
                 toolInput |-> toolInputOf(context)]),
              "toolName" \notin DOMAIN context, FALSE)

\* the handler as registered, with its try and catch. Reading context.toolName
\* of a null context throws at once; a context without toolName passes the
\* URL step and throws in isShellTool. caught tells that the catch block
\* produced the result.
beforeToolCallHandler(cfg, st, context) ==
  IF IsNull(context)
  THEN [state |-> st, result |-> Allow, trackerCalls |-> <<>>,
        outcome |-> "resolved", caught |-> TRUE]
  ELSE IF ~cfg.global.enabled
  THEN [state |-> st, result |-> Allow, trackerCalls |-> <<>>,
        outcome |-> "resolved", caught |-> FALSE]
  ELSE settle(beforeToolCall(cfg, st,
                [toolName |-> toolNameOf(context),
                 toolInput |-> toolInputOf(context)]),
              "toolName" \notin DOMAIN context, TRUE)

(***************************************************************************)
(* before-agent-start hook (hooks/before-agent-start/handler.ts)           *)
(***************************************************************************)
\* tier.toUpperCase()
tierToUpperCase(tier) ==
  CASE tier = "permissive" -> "PERMISSIVE"
    [] tier = "cautious" -> "CAUTIOUS"
    [] tier = "restricted" -> "RESTRICTED"
    [] tier = "lockdown" -> "LOCKDOWN"

\* the text is modelled by what varies in it: the level, the tier in upper
\* case, the patterns listed (ten at most) and the count of the others
buildSecurityContextPrompt(cfg, taintLevel, tier) ==
  [taintLevel |-> taintLevel,
   tier |-> tierToUpperCase(tier),
   patterns |-> SubSeq(cfg.trustedUrls.patterns, 1,
                       Min(10, Len(cfg.trustedUrls.patterns))),
   more |-> Max(0, Len(cfg.trustedUrls.patterns) - 10)]

\* {} : a result without prependContext
NoPrependContext == [prependContext |-> [taintLevel |-> -1, tier |-> "none",
                                         patterns |-> <<>>, more |-> 0]]

\* a session id is the sequence of the pieces of its string; the id made up
\* for a context without one is session_ followed by the timestamp
sessionIdOf(context) ==
  IF "sessionId" \in DOMAIN context /\ context.sessionId # <<>>
  THEN context.sessionId
  ELSE <<"session_", context.timestamp>>

\* beforeAgentStart that marks the session before it looks at enabled
beforeAgentStart_markFirst(cfg, st, injected, context) ==
  IF IsNull(context)
  THEN [injectedSessions |-> injected, result |-> NoPrependContext,
        outcome |-> "resolved", caught |-> TRUE]
  ELSE IF sessionIdOf(context) \in injected
  THEN [injectedSessions |-> injected, result |-> NoPrependContext,
        outcome |-> "resolved", caught |-> FALSE]
  ELSE IF ~cfg.global.enabled
  THEN [injectedSessions |-> injected \cup {sessionIdOf(context)},
        result |-> NoPrependContext,
        outcome |-> "resolved", caught |-> FALSE]
  ELSE [injectedSessions |-> injected \cup {sessionIdOf(context)},
        result |-> [prependContext |->
                      buildSecurityContextPrompt(cfg, st.level, st.tier)],
        outcome |-> "resolved", caught |-> FALSE]

\* the handler returns its result; the model also returns the set of
\* injected sessions it leaves
beforeAgentStart(cfg, st, injected, context) ==
  IF IsNull(context)
  THEN [injectedSessions |-> injected, result |-> NoPrependContext,
        outcome |-> "resolved", caught |-> TRUE]
  ELSE IF sessionIdOf(context) \in injected
  THEN [injectedSessions |-> injected, result |-> NoPrependContext,
        outcome |-> "resolved", caught |-> FALSE]
  ELSE IF ~cfg.global.enabled
  THEN [injectedSessions |-> injected, result |-> NoPrependContext,
        outcome |-> "resolved", caught |-> FALSE]
  ELSE [injectedSessions |-> injected \cup {sessionIdOf(context)},
        result |-> [prependContext |->
                      buildSecurityContextPrompt(cfg, st.level, st.tier)],
        outcome |-> "resolved", caught |-> FALSE]

(***************************************************************************)
(* Configurations (config/schema.ts)                                       *)
(***************************************************************************)
DefaultThresholds ==
  << [minTaint |-> 75, maxTaint |-> 100, tier |-> "permissive"],
     [minTaint |-> 50, maxTaint |-> 74, tier |-> "cautious"],
     [minTaint |-> 25, maxTaint |-> 49, tier |-> "restricted"],
     [minTaint |-> 0, maxTaint |-> 24, tier |-> "lockdown"] >>

DefaultTaint ==
  [initialLevel |-> 100, penaltyPerUntrustedUrl |-> 10,
   recoveryPerTrustedUrl |-> 0, minimumLevel |-> 0,
   thresholds |-> DefaultThresholds]

\* every value is one TaintConfigSchema accepts (numbers in [0,100])
TaintConfigs ==
  [initialLevel : {100, 70, 30},
   penaltyPerUntrustedUrl : {0, 10, 30, 100},
   recoveryPerTrustedUrl : {0, 5, 30},
   minimumLevel : {0, 20, 50},
   thresholds : {DefaultThresholds}]

\* a small rule set over the characters r R l / ; and space, shaped like the
\* default one: an always-blocked pattern extends a dangerous one, patterns
\* carry upper-case letters, a safe entry has an argument
CmdChars == {"r", "R", "l", "/", " ", ";"}

Commands == UNION {[1..n -> CmdChars] : n \in 0..MaxCmdLen}

ShellRules ==
  [toolNames |-> << <<"B","a","s","h">>, <<"s","h","e","l","l">> >>,
   alwaysBlocked |-> << <<"R","/">>, <<"/","r">> >>,
   dangerousCommands |-> << <<"R">>, <<"l"," ","/">> >>,
   safeCommands |-> << <<"L">>, <<"/"," ","l">> >>]

DefaultTrustedUrls == [patterns |-> << <<"*",".","g",".","c">> >>]

DefaultConfig ==
  [global |-> [enabled |-> TRUE],
   taint |-> DefaultTaint,
   trustedUrls |-> DefaultTrustedUrls,
   shellRestrictions |-> ShellRules]

\* call is the operation invoked last with its arguments (and, for a tracker
\* or hook operation, the tracker state it found); ret is what it returned
NoCall == [op |-> "none"]

(***************************************************************************)
(* The engine called directly: check(command, tier)                        *)
(***************************************************************************)
InitCheck ==
  /\ config = DefaultConfig
  /\ state = createTaintTracker(config.taint)
  /\ call \in [op : {"check"}, command : Commands,
               tier : Tiers \cup UnknownTiers]
  /\ ret = NoCall
  /\ injectedSessions = {}

Check ==
  /\ call.op = "check"
  /\ ret = NoCall
  /\ ret' = [op |-> "check",
             value |-> check(config.shellRestrictions, call.command, call.tier)]
  /\ UNCHANGED <<config, state, call, injectedSessions>>

NextCheck == Check

SpecCheck == InitCheck /\ [][NextCheck]_vars

(***************************************************************************)
(* The tracker called directly: applyPenalty, applyRecovery, reset         *)
(***************************************************************************)
InitTracker ==
  /\ config \in [global : {[enabled |-> TRUE]},
                 taint : TaintConfigs,
                 trustedUrls : {DefaultTrustedUrls},
                 shellRestrictions : {ShellRules}]
  /\ state = createTaintTracker(config.taint)
  /\ call = NoCall
  /\ ret = NoCall
  /\ injectedSessions = {}

ApplyPenalty ==
  /\ Len(state.events) < MaxEvents
  /\ \E r \in {applyPenalty(config.taint, state)} :
       /\ state' = r.state
       /\ ret' = [op |-> "applyPenalty", value |-> r.event]
  /\ call' = [op |-> "applyPenalty", before |-> state]
  /\ UNCHANGED <<config, injectedSessions>>

ApplyRecovery ==
  /\ Len(state.events) < MaxEvents
  /\ \E r \in {applyRecovery(config.taint, state)} :
       /\ state' = r.state
       /\ ret' = [op |-> "applyRecovery", value |-> r.event]
  /\ call' = [op |-> "applyRecovery", before |-> state]
  /\ UNCHANGED <<config, injectedSessions>>

Reset ==
  /\ state' = reset(config.taint, state)
  /\ ret' = [op |-> "reset"]
  /\ call' = [op |-> "reset", before |-> state]
  /\ UNCHANGED <<config, injectedSessions>>

NextTracker == ApplyPenalty \/ ApplyRecovery \/ Reset

SpecTracker == InitTracker /\ [][NextTracker]_vars

(***************************************************************************)
(* The tracker and a caller that keeps what it was handed: the object      *)
(* getState returned and the event the last mutating call returned         *)
(***************************************************************************)
\* the value the caller writes into what it holds; no level equals it
Scribble == 0 - 1

NothingHeld ==
  [taken |-> FALSE,
   snapshot |-> [level |-> 0, tier |-> "none", events |-> <<>>],
   event |-> 0]

\* one penalty, every recovery amount
HeldTaintConfigs ==
  {taint \in TaintConfigs : /\ taint.initialLevel = 70
                            /\ taint.penaltyPerUntrustedUrl = 30
                            /\ taint.minimumLevel = 0}

InitSnapshot ==
  /\ config \in [global : {[enabled |-> TRUE]},
                 taint : HeldTaintConfigs,
                 trustedUrls : {DefaultTrustedUrls},
                 shellRestrictions : {ShellRules}]
  /\ state = createTaintTracker(config.taint)
  /\ call = [op |-> "none", before |-> state, held |-> NothingHeld,
             heldBefore |-> NothingHeld]
  /\ ret = NoCall
  /\ injectedSessions = {}

\* what the caller reads in the object it holds: the event objects are
\* looked up where they live
snapshotValue(held, st) ==
  [level |-> held.snapshot.level,
   tier |-> held.snapshot.tier,
   events |-> [i \in 1..Len(held.snapshot.events) |->
                 st.events[held.snapshot.events[i]]]]

\* the event a mutating call returns is the object it pushed; the event of
\* a recovery of amount 0 is pushed nowhere and is the caller's alone (0)
returnedEvent(before, after) ==
  IF Len(after.events) > Len(before.events) THEN Len(after.events) ELSE 0

HeldApplyPenalty ==
  /\ Len(state.events) < MaxEvents
  /\ \E r \in {applyPenalty(config.taint, state)} :
       /\ state' = r.state
       /\ ret' = [op |-> "applyPenalty", value |-> r.event]
       /\ call' = [op |-> "applyPenalty", before |-> state,
                   held |-> [call.held EXCEPT
                               !.event = returnedEvent(state, r.state)],
                   heldBefore |-> call.held]
  /\ UNCHANGED <<config, injectedSessions>>

HeldApplyRecovery ==
  /\ Len(state.events) < MaxEvents
  /\ \E r \in {applyRecovery(config.taint, state)} :
       /\ state' = r.state
       /\ ret' = [op |-> "applyRecovery", value |-> r.event]
       /\ call' = [op |-> "applyRecovery", before |-> state,
                   held |-> [call.held EXCEPT
                               !.event = returnedEvent(state, r.state)],
                   heldBefore |-> call.held]
  /\ UNCHANGED <<config, injectedSessions>>

GetState ==
  /\ \E held \in {[call.held EXCEPT !.taken = TRUE,
                                     !.snapshot = getState(state)]} :
       /\ call' = [op |-> "getState", before |-> state, held |-> held,
                   heldBefore |-> call.held]
       /\ ret' = [op |-> "getState", value |-> snapshotValue(held, state)]
  /\ UNCHANGED <<config, state, injectedSessions>>

\* snapshot.level = ...; snapshot.tier = ...
SetSnapshotLevel ==
  /\ call.held.taken
  /\ call' = [op |-> "setSnapshotLevel", before |-> state,
              held |-> [call.held EXCEPT !.snapshot.level = Scribble,
                                         !.snapshot.tier = "none"],
              heldBefore |-> call.held]
  /\ ret' = NoCall
  /\ UNCHANGED <<config, state, injectedSessions>>

\* snapshot.events.pop()
PopSnapshotEvents ==
  /\ call.held.taken
  /\ call.held.snapshot.events # <<>>
  /\ call' = [op |-> "popSnapshotEvents", before |-> state,
              held |-> [call.held EXCEPT
                          !.snapshot.events =
                             SubSeq(@, 1, Len(@) - 1)],
              heldBefore |-> call.held]
  /\ ret' = NoCall
  /\ UNCHANGED <<config, state, injectedSessions>>

\* snapshot.events[k].newLevel = ...: the object written is the tracker's
SetSnapshotEvent(k) ==
  /\ call.held.taken
  /\ k \in 1..Len(call.held.snapshot.events)
  /\ state' = [state EXCEPT
                 !.events[call.held.snapshot.events[k]].newLevel = Scribble]
  /\ call' = [op |-> "setSnapshotEvent", before |-> state,
              held |-> call.held, heldBefore |-> call.held]
  /\ ret' = NoCall
  /\ UNCHANGED <<config, injectedSessions>>

\* event.newLevel = ... on the event a mutating call returned
SetReturnedEvent ==
  /\ call.held.event # 0
  /\ state' = [state EXCEPT !.events[call.held.event].newLevel = Scribble]
  /\ call' = [op |-> "setReturnedEvent", before |-> state,
              held |-> call.held, heldBefore |-> call.held]
  /\ ret' = NoCall
  /\ UNCHANGED <<config, injectedSessions>>

NextSnapshot ==
  \/ HeldApplyPenalty
  \/ HeldApplyRecovery
  \/ GetState
  \/ SetSnapshotLevel
  \/ PopSnapshotEvents
  \/ \E k \in 1..MaxEvents : SetSnapshotEvent(k)
  \/ SetReturnedEvent

SpecSnapshot == InitSnapshot /\ [][NextSnapshot]_vars

(***************************************************************************)
(* resolveTier called directly, as the exported function it is             *)
(***************************************************************************)
\* where one range may end and the next begin
CutPoints == {25, 50, 75}

\* the k-th smallest element of a set of numbers
Nth(cs, k) == CHOOSE c \in cs : Cardinality({d \in cs : d < c}) = k - 1

\* the ranges the cuts divide 0..100 into, lowest first, with tiers f
RangesOf(cs, f) ==
  [i \in 1..(Cardinality(cs) + 1) |->
     [minTaint |-> IF i = 1 THEN 0 ELSE Nth(cs, i - 1),
      maxTaint |-> IF i = Cardinality(cs) + 1 THEN 100 ELSE Nth(cs, i) - 1,
      tier |-> f[i]]]

\* threshold lists whose ranges do not overlap and cover 0..100, every
\* assignment of tiers to the ranges; the schema accepts each of them
CoveringThresholds ==
  UNION {{RangesOf(cs, f) : f \in [1..(Cardinality(cs) + 1) -> Tiers]} :
           cs \in SUBSET CutPoints}

\* a list without the i-th entry
Without(list, i) == SubSeq(list, 1, i - 1) \o SubSeq(list, i + 1, Len(list))

\* threshold lists that leave levels uncovered: the default one with one
\* range missing, one range short of both ends, and the empty list
GapThresholds ==
  {Without(DefaultThresholds, i) : i \in 1..Len(DefaultThresholds)}
    \cup {<<[minTaint |-> 1, maxTaint |-> 99, tier |-> "cautious"]>>, <<>>}

\* resolveTier takes any number; the tracker passes it levels in 0..100
Levels == (0 - LevelMargin)..(100 + LevelMargin)

InitResolve ==
  /\ config = DefaultConfig
  /\ state = createTaintTracker(config.taint)
  /\ call \in [op : {"resolveTier"}, level : Levels,
               thresholds : CoveringThresholds \cup GapThresholds]
  /\ ret = NoCall
  /\ injectedSessions = {}

ResolveTier ==
  /\ call.op = "resolveTier"
  /\ ret = NoCall
  /\ ret' = [op |-> "resolveTier",
             value |-> resolveTier(call.level, call.thresholds)]
  /\ UNCHANGED <<config, state, call, injectedSessions>>

NextResolve == ResolveTier

SpecResolve == InitResolve /\ [][NextResolve]_vars

(***************************************************************************)
(* The plugin in operation: every tool call goes through the hook          *)
(***************************************************************************)
Fields ==
  {urlFields[i] : i \in 1..Len(urlFields)}
    \cup {commandFields[i] : i \in 1..Len(commandFields)}
    \cup {"path", "args"}

\* the tool input that holds the given <<field, value>> pairs
Input(pairs) ==
  [f \in Fields |->
     IF \E pr \in pairs : pr[1] = f
     THEN (CHOOSE pr \in pairs : pr[1] = f)[2]
     ELSE Undefined]

TrustedUrl == <<"h","t","t","p","s",":","/","/","d",".","g",".","c","/","p">>

UntrustedUrl == <<"h","t","t","p",":","/","/","e",".","x">>

\* found, but the host cannot be parsed
UnparseableUrl == <<"h","t","t","p",":","/","/">>

UrlValues ==
  {Undefined, Str(TrustedUrl), Str(UntrustedUrl), Str(UnparseableUrl), Str(<<>>)}

CommandValues ==
  {Undefined, NotAString, Str(<<" ", " ">>),
   Str(<<"l">>), Str(<<"R">>), Str(<<"r", "/">>),
   Str(<<"R", " ">> \o UntrustedUrl)}

\* a shell tool as configured, one in another case, the beginning of one,
\* and a tool that has nothing of a shell
ToolNames ==
  {<<"B","a","s","h">>, <<"S","H","E","L","L">>, <<"B","a","s">>,
   <<"f","e","t","c","h">>}

ToolCalls ==
  {[toolName |-> n, toolInput |-> Input({<<"url", u>>, <<"command", c>>})] :
     n \in ToolNames, u \in UrlValues, c \in CommandValues}
  \cup
  {[toolName |-> n, toolInput |-> Input({<<"args", Str(<<"l">>)>>})] :
     n \in ToolNames}

HookTaintConfigs ==
  {[initialLevel |-> 100, penaltyPerUntrustedUrl |-> 30,
    recoveryPerTrustedUrl |-> 0, minimumLevel |-> 0,
    thresholds |-> DefaultThresholds],
   [initialLevel |-> 70, penaltyPerUntrustedUrl |-> 30,
    recoveryPerTrustedUrl |-> 30, minimumLevel |-> 0,
    thresholds |-> DefaultThresholds]}

Init ==
  /\ config \in [global : [enabled : BOOLEAN],
                 taint : HookTaintConfigs,
                 trustedUrls : {DefaultTrustedUrls},
                 shellRestrictions : {ShellRules}]
  /\ state = createTaintTracker(config.taint)
  /\ call = NoCall
  /\ ret = NoCall
  /\ injectedSessions = {}

BeforeToolCall(context) ==
  /\ Len(state.events) < MaxEvents
  /\ \E r \in {beforeToolCall(config, state, context)} :
       /\ state' = r.state
       /\ ret' = [op |-> "beforeToolCall", value |-> r.result,
                  trackerCalls |-> r.trackerCalls]
  /\ call' = [op |-> "beforeToolCall", context |-> context, before |-> state]
  /\ UNCHANGED <<config, injectedSessions>>

Next == \E context \in ToolCalls : BeforeToolCall(context)

Spec == Init /\ [][Next]_vars

(***************************************************************************)
(* The plugin in operation with the configuration the schema defaults to   *)
(***************************************************************************)
InitDefault ==
  /\ config = DefaultConfig
  /\ state = createTaintTracker(config.taint)
  /\ call = NoCall
  /\ ret = NoCall
  /\ injectedSessions = {}

DefaultToolCall(context) ==
  /\ Len(state.events) < MaxAccesses
  /\ \E r \in {beforeToolCall(config, state, context)} :
       /\ state' = r.state
       /\ ret' = [op |-> "beforeToolCall", value |-> r.result,
                  trackerCalls |-> r.trackerCalls]
  /\ call' = [op |-> "beforeToolCall", context |-> context, before |-> state]
  /\ UNCHANGED <<config, injectedSessions>>

NextDefault == \E context \in ToolCalls : DefaultToolCall(context)

SpecDefault == InitDefault /\ [][NextDefault]_vars

(***************************************************************************)
(* The plugin in operation without recovery, untrusted URLs being accessed *)
(* again and again                                                         *)
(***************************************************************************)
\* a positive penalty and no recovery, and the configuration the schema
\* defaults to, which is one of these
FloorTaintConfigs ==
  {taint \in TaintConfigs : /\ taint.penaltyPerUntrustedUrl > 0
                            /\ taint.recoveryPerTrustedUrl = 0}
    \cup {DefaultTaint}

\* calls that access an untrusted URL: by a tool that is no shell, and by a
\* shell tool whose command embeds it
UntrustedToolCalls ==
  {[toolName |-> <<"f","e","t","c","h">>,
    toolInput |-> Input({<<"url", Str(UntrustedUrl)>>})],
   [toolName |-> <<"B","a","s","h">>,
    toolInput |-> Input({<<"command", Str(<<"l", " ">> \o UntrustedUrl)>>})]}

\* calls that access a trusted URL or none
OtherToolCalls ==
  {[toolName |-> <<"f","e","t","c","h">>,
    toolInput |-> Input({<<"url", Str(TrustedUrl)>>})],
   [toolName |-> <<"B","a","s","h">>,
    toolInput |-> Input({<<"command", Str(<<"l">>)>>})],
   [toolName |-> <<"B","a","s","h">>,
    toolInput |-> Input({<<"command", Str(<<"L">>)>>, <<"url", Str(TrustedUrl)>>})]}

InitFloor ==
  /\ config \in [global : {[enabled |-> TRUE]},
                 taint : FloorTaintConfigs,
                 trustedUrls : {DefaultTrustedUrls},
                 shellRestrictions : {ShellRules}]
  /\ state = createTaintTracker(config.taint)
  /\ call = NoCall
  /\ ret = NoCall
  /\ injectedSessions = {}

FloorToolCall(context) ==
  /\ Len(state.events) < MaxAccesses
  /\ \E r \in {beforeToolCall(config, state, context)} :
       /\ state' = r.state
       /\ ret' = [op |-> "beforeToolCall", value |-> r.result,
                  trackerCalls |-> r.trackerCalls]
  /\ call' = [op |-> "beforeToolCall", context |-> context, before |-> state]
  /\ UNCHANGED <<config, injectedSessions>>

UntrustedAccess == \E context \in UntrustedToolCalls : FloorToolCall(context)

OtherAccess == \E context \in OtherToolCalls : FloorToolCall(context)

NextFloor == UntrustedAccess \/ OtherAccess

\* an untrusted access can be made, and changes the history, exactly as
\* long as the history has room
UntrustedAccessEnabled == Len(state.events) < MaxAccesses

\* untrusted URLs keep being accessed for as long as calls are made: weak
\* fairness of UntrustedAccess, with its enabling condition written out
SpecFloor ==
  /\ InitFloor
  /\ [][NextFloor]_vars
  /\ ([]<>(~UntrustedAccessEnabled) \/ []<><<UntrustedAccess>>_vars)

(***************************************************************************)
(* Both hooks as registered, called for several sessions                   *)
(***************************************************************************)
\* session ids a context carries; the last is the string session_1
SessionIds == {<<"A">>, <<"B">>, <<"session_", "1">>}

Timestamps == {"1", "2"}

\* contexts of before_agent_start: with a session id, with an empty one,
\* without one, and no context at all
AgentStarts ==
  {[sessionId |-> s, timestamp |-> "2"] : s \in SessionIds \cup {<<>>}}
    \cup {[timestamp |-> t] : t \in Timestamps}
    \cup {NullContext}

SessionToolInputs ==
  {Input({<<"url", Str(UntrustedUrl)>>}),
   Input({<<"url", Str(TrustedUrl)>>}),
   Input({<<"command", Str(<<"R">>)>>}),
   Input({<<"command", Str(<<"r", "/">>)>>, <<"url", Str(UntrustedUrl)>>})}

\* contexts of before_tool_call: of two sessions, without a tool name (with
\* and without a URL), and no context at all
SessionToolCalls ==
  {[sessionId |-> s, toolName |-> n, toolInput |-> i] :
     s \in {<<"A">>, <<"B">>},
     n \in {<<"B","a","s","h">>, <<"f","e","t","c","h">>},
     i \in SessionToolInputs}
  \cup {[timestamp |-> "1"],
        [timestamp |-> "1", toolInput |-> Input({<<"url", Str(UntrustedUrl)>>})],
        [timestamp |-> "1", params |-> Input({<<"url", Str(UntrustedUrl)>>})],
        NullContext}

InitAgent ==
  /\ config \in [global : [enabled : BOOLEAN],
                 taint : HookTaintConfigs,
                 trustedUrls : {DefaultTrustedUrls},
                 shellRestrictions : {ShellRules}]
  /\ state = createTaintTracker(config.taint)
  /\ call = NoCall
  /\ ret = NoCall
  /\ injectedSessions = {}

\* the caller's record of the session ids it has passed to
\* before_agent_start so far
Started == IF "started" \in DOMAIN call THEN call.started ELSE {}

BeforeToolCallHandler(context) ==
  /\ Len(state.events) < MaxEvents
  /\ \E r \in {beforeToolCallHandler(config, state, context)} :
       /\ state' = r.state
       /\ ret' = [op |-> "beforeToolCall", outcome |-> r.outcome,
                  value |-> r.result, trackerCalls |-> r.trackerCalls,
                  caught |-> r.caught]
  /\ call' = [op |-> "beforeToolCall", context |-> context, before |-> state,
              injectedBefore |-> injectedSessions,
              started |-> Started]
  /\ UNCHANGED <<config, injectedSessions>>

BeforeAgentStartHandler(context) ==
  /\ \E r \in {beforeAgentStart(config, state, injectedSessions, context)} :
       /\ injectedSessions' = r.injectedSessions
       /\ ret' = [op |-> "beforeAgentStart", outcome |-> r.outcome,
                  value |-> r.result, caught |-> r.caught]
  /\ call' = [op |-> "beforeAgentStart", context |-> context, before |-> state,
              injectedBefore |-> injectedSessions,
              startedBefore |-> Started,
              started |-> Started \cup
                (IF ~IsNull(context) /\ "sessionId" \in DOMAIN context
                 THEN {context.sessionId} ELSE {})]
  /\ UNCHANGED <<config, state>>

NextAgent ==
  \/ \E context \in SessionToolCalls : BeforeToolCallHandler(context)
  \/ \E context \in AgentStarts : BeforeAgentStartHandler(context)

SpecAgent == InitAgent /\ [][NextAgent]_vars

(***************************************************************************)
(* Several invocations of the before-tool-call handler in flight on one    *)
(* tracker.  An invocation runs on the one thread of the event loop: once  *)
(* entered it keeps the thread until it returns or reaches an await, and   *)
(* only then may another invocation be entered or resumed.                 *)
(***************************************************************************)
\* a body that awaits between the update and the shell step
suspensionPoints_awaitBeforeEvaluate == {"updated"}

\* the positions of an invocation are entered (line 48), classified (after
\* line 59), updated (after line 82) and done (returned); the positions at
\* which the body awaits are none, it has no await
suspensionPoints == {}

\* step 3 of the handler (lines 85-112) for a result of check
shellDecision(shellCheck, tier, level) ==
  IF ~shellCheck.allowed THEN Block(shellCheck, tier, level) ELSE Allow

\* step 3 of the handler on the tracker as it is when the step runs
shellStep(cfg, st, context) ==
  IF /\ isShellTool(cfg.shellRestrictions, context.toolName)
     /\ extractCommand(context.toolInput) # Null
  THEN shellDecision(check(cfg.shellRestrictions,
                           extractCommand(context.toolInput), st.tier),
                     st.tier, st.level)
  ELSE Allow

ConcurrentToolCalls ==
  {[toolName |-> <<"f","e","t","c","h">>,
    toolInput |-> Input({<<"url", Str(UntrustedUrl)>>})],
   [toolName |-> <<"f","e","t","c","h">>,
    toolInput |-> Input({<<"url", Str(TrustedUrl)>>})],
   [toolName |-> <<"B","a","s","h">>,
    toolInput |-> Input({<<"command", Str(<<"R">>)>>})],
   [toolName |-> <<"B","a","s","h">>,
    toolInput |-> Input({<<"command", Str(<<"l">> \o <<" ">> \o UntrustedUrl)>>})]}

NoUrlCheck ==
  [urlFound |-> FALSE, url |-> NoString, domain |-> NoString,
   trusted |-> TRUE, matchedPattern |-> NoString]

InitConcurrent ==
  /\ config \in [global : [enabled : BOOLEAN],
                 taint : HookTaintConfigs,
                 trustedUrls : {DefaultTrustedUrls},
                 shellRestrictions : {ShellRules}]
  /\ state = createTaintTracker(config.taint)
  /\ call = [op |-> "invocations", running |-> 0, calls |-> <<>>]
  /\ ret = NoCall
  /\ injectedSessions = {}

\* the invocation i may take its next step: it holds the thread, or nobody
\* does and it waits at an await
MayStep(i) ==
  /\ i \in 1..Len(call.calls)
  /\ call.running \in
       {i} \cup (IF call.calls[i].pc \in suspensionPoints THEN {0} ELSE {})

\* who holds the thread after invocation i has reached position pc
Holder(i, pc) == IF pc = "done" \/ pc \in suspensionPoints THEN 0 ELSE i

\* the caller invokes the handler: the body is entered at once
Invoke(context) ==
  /\ call.op = "invocations"
  /\ call.running = 0
  /\ Len(call.calls) < MaxCalls
  /\ call' = [call EXCEPT
                !.running = Len(call.calls) + 1,
                !.calls = Append(@, [context |-> context, pc |-> "entered",
                                     urlCheck |-> NoUrlCheck,
                                     result |-> Allow])]
  /\ UNCHANGED <<config, state, ret, injectedSessions>>

\* lines 49-59: the enabled check, then urlTrustChecker.check(toolInput)
ClassifyStep(i) ==
  /\ MayStep(i)
  /\ call.calls[i].pc = "entered"
  /\ \E pc \in {IF config.global.enabled THEN "classified" ELSE "done"} :
       call' = [call EXCEPT
                  !.running = Holder(i, pc),
                  !.calls[i].pc = pc,
                  !.calls[i].urlCheck =
                     IF config.global.enabled
                     THEN urlCheck(config.trustedUrls,
                                   call.calls[i].context.toolInput)
                     ELSE NoUrlCheck]
  /\ UNCHANGED <<config, state, ret, injectedSessions>>

\* lines 61-82: applyRecovery or applyPenalty on the shared tracker
UpdateStep(i) ==
  /\ MayStep(i)
  /\ call.calls[i].pc = "classified"
  /\ state' = updateTaint(config, state, call.calls[i].urlCheck).state
  /\ call' = [call EXCEPT !.running = Holder(i, "updated"),
                          !.calls[i].pc = "updated"]
  /\ UNCHANGED <<config, ret, injectedSessions>>

\* lines 85-115: the shell step on the tracker as it is now, and the return
EvaluateStep(i) ==
  /\ MayStep(i)
  /\ call.calls[i].pc = "updated"
  /\ call' = [call EXCEPT
                !.running = Holder(i, "done"),
                !.calls[i].pc = "done",
                !.calls[i].result =
                   shellStep(config, state, call.calls[i].context)]
  /\ UNCHANGED <<config, state, ret, injectedSessions>>

NextConcurrent ==
  \/ \E context \in ConcurrentToolCalls : Invoke(context)
  \/ \E i \in 1..MaxCalls : ClassifyStep(i)
  \/ \E i \in 1..MaxCalls : UpdateStep(i)
  \/ \E i \in 1..MaxCalls : EvaluateStep(i)

SpecConcurrent == InitConcurrent /\ [][NextConcurrent]_vars

(***************************************************************************)
(* Plugin lifecycle (index.ts): activate, deactivate, isActive,            *)
(* getTaintState.  Here state is the plugin state: initialized, the        *)
(* tracker it points to (0 for null), beside it the trackers created so    *)
(* far and the hooks registered with the host, which has no way to remove  *)
(* one.                                                                    *)
(***************************************************************************)
NoPlugin ==
  [initialized |-> FALSE, taintTracker |-> 0, trackers |-> <<>>, hooks |-> <<>>]

\* activate that does not look at state.initialized
activate_again(cfg, st, enabled) ==
  IF ~enabled
  THEN [st EXCEPT !.initialized = TRUE]
  ELSE [initialized |-> TRUE,
        taintTracker |-> Len(st.trackers) + 1,
        trackers |-> Append(st.trackers, createTaintTracker(cfg.taint)),
        hooks |-> st.hooks \o
                    <<[hookName |-> "before_tool_call",
                       taintTracker |-> Len(st.trackers) + 1,
                       priority |-> 100],
                      [hookName |-> "before_agent_start",
                       taintTracker |-> Len(st.trackers) + 1,
                       priority |-> 50]>>]

\* activate(api) with api.config.enabled = enabled
activate(cfg, st, enabled) ==
  IF st.initialized
  THEN st
  ELSE IF ~enabled
  THEN [st EXCEPT !.initialized = TRUE]
  ELSE [initialized |-> TRUE,
        taintTracker |-> Len(st.trackers) + 1,
        trackers |-> Append(st.trackers, createTaintTracker(cfg.taint)),
        hooks |-> st.hooks \o
                    <<[hookName |-> "before_tool_call",
                       taintTracker |-> Len(st.trackers) + 1,
                       priority |-> 100],
                      [hookName |-> "before_agent_start",
                       taintTracker |-> Len(st.trackers) + 1,
                       priority |-> 50]>>]

deactivate(st) ==
  IF ~st.initialized
  THEN st
  ELSE [st EXCEPT !.initialized = FALSE, !.taintTracker = 0]

isActive(st) == st.initialized

getTaintState(st) ==
  IF st.taintTracker = 0
  THEN Null
  ELSE [level |-> st.trackers[st.taintTracker].level,
        tier |-> st.trackers[st.taintTracker].tier]

\* the call the host passes to a registered before_tool_call hook
UntrustedFetch ==
  [toolName |-> <<"f","e","t","c","h">>,
   toolInput |-> Input({<<"url", Str(UntrustedUrl)>>})]

InitLifecycle ==
  /\ config \in [global : {[enabled |-> TRUE]},
                 taint : HookTaintConfigs,
                 trustedUrls : {DefaultTrustedUrls},
                 shellRestrictions : {ShellRules}]
  /\ state = NoPlugin
  /\ call = NoCall
  /\ ret = NoCall
  /\ injectedSessions = {}

Activate(enabled) ==
  /\ Len(state.trackers) < MaxActivations
  /\ state' = activate(config, state, enabled)
  /\ call' = [op |-> "activate", enabled |-> enabled, before |-> state]
  /\ ret' = [op |-> "activate"]
  /\ UNCHANGED <<config, injectedSessions>>

Deactivate ==
  /\ state' = deactivate(state)
  /\ call' = [op |-> "deactivate", before |-> state]
  /\ ret' = [op |-> "deactivate"]
  /\ UNCHANGED <<config, injectedSessions>>

\* the host calls a registered before_tool_call hook; the handler works on
\* the tracker it was created with
HookToolCall(h) ==
  /\ h \in 1..Len(state.hooks)
  /\ state.hooks[h].hookName = "before_tool_call"
  /\ Len(state.trackers[state.hooks[h].taintTracker].events) < MaxEvents
  /\ \E r \in {beforeToolCall(config,
                               state.trackers[state.hooks[h].taintTracker],
                               UntrustedFetch)} :
       /\ state' = [state EXCEPT
                      !.trackers[state.hooks[h].taintTracker] = r.state]
       /\ ret' = [op |-> "beforeToolCall", value |-> r.result,
                  trackerCalls |-> r.trackerCalls]
  /\ call' = [op |-> "beforeToolCall", hook |-> h, before |-> state]
  /\ UNCHANGED <<config, injectedSessions>>

NextLifecycle ==
  \/ \E enabled \in BOOLEAN : Activate(enabled)
  \/ Deactivate
  \/ \E h \in 1..(2 * MaxActivations) : HookToolCall(h)

SpecLifecycle == InitLifecycle /\ [][NextLifecycle]_vars

(***************************************************************************)
(* The URL trust checker called directly: check, isDomainTrusted and       *)
(* matchesGlobPattern for one domain and one list of patterns              *)
(***************************************************************************)
\* labels of a domain: empty, lower case, upper case
Labels == {<<>>, <<"d">>, <<"g">>, <<"G">>, <<"c">>}

\* the labels joined by dots
RECURSIVE JoinLabels(_)
JoinLabels(ls) ==
  IF Len(ls) = 1 THEN ls[1]
  ELSE ls[1] \o <<".">> \o JoinLabels(Tail(ls))

Domains ==
  {JoinLabels(ls) : ls \in UNION {[1..n -> Labels] : n \in 1..MaxLabels}}

\* *.g.c, **.g.c and g.c
StarPattern == <<"*", ".", "g", ".", "c">>

DoubleStarPattern == <<"*", "*", ".", "g", ".", "c">>

ExactPattern == <<"g", ".", "c">>

Patterns == {StarPattern, DoubleStarPattern, ExactPattern}

PatternLists == UNION {[1..n -> Patterns] : n \in 0..MaxPatterns}

\* the tool input whose url field is https:// followed by the domain
UrlInput(domain) == Input({<<"url", Str(Https \o domain)>>})

InitTrust ==
  /\ config \in {[DefaultConfig EXCEPT !.trustedUrls.patterns = ps] :
                   ps \in PatternLists}
  /\ state = createTaintTracker(config.taint)
  /\ call \in [op : {"check"}, domain : Domains]
  /\ ret = NoCall
  /\ injectedSessions = {}

Classify ==
  /\ call.op = "check"
  /\ ret = NoCall
  /\ ret' = [op |-> "check",
             value |-> urlCheck(config.trustedUrls, UrlInput(call.domain)),
             isDomainTrusted |-> isDomainTrusted(config.trustedUrls, call.domain),
             matches |-> [i \in 1..Len(config.trustedUrls.patterns) |->
                            matchesGlobPattern(call.domain,
                                               config.trustedUrls.patterns[i])]]
  /\ UNCHANGED <<config, state, call, injectedSessions>>

NextTrust == Classify

SpecTrust == InitTrust /\ [][NextTrust]_vars

(***************************************************************************)
(* extractUrlFromContext called directly, as the exported function it is   *)
(***************************************************************************)
\* what a direct URL field may hold: nothing, a value that is no string,
\* the empty string, a string (any non-empty string is taken as it is)
DirectValues(text) == {Undefined, NotAString, Str(<<>>), Str(text)}

\* what a command field may hold: nothing, a value that is no string, a
\* command without a URL, a scheme with nothing after it, a URL alone, and
\* a command with two URLs of which the first ends at a quote
EmbeddingValues ==
  {Undefined, NotAString, Str(<<"l">>), Str(Http), Str(TrustedUrl),
   Str(<<"R", " ">> \o UntrustedUrl \o <<"\"", " ">> \o TrustedUrl)}

\* tool inputs over the first, second and last direct field and the first,
\* second and last command field
ExtractInputs ==
  {Input({<<"url", u>>, <<"href", h>>, <<"endpoint", e>>,
          <<"command", c>>, <<"cmd", d>>, <<"input", i>>}) :
     u \in DirectValues(<<"u">>), h \in DirectValues(<<"h">>),
     e \in DirectValues(<<"e">>),
     c \in EmbeddingValues, d \in EmbeddingValues, i \in EmbeddingValues}

InitExtract ==
  /\ config = DefaultConfig
  /\ state = createTaintTracker(config.taint)
  /\ call \in [op : {"extractUrlFromContext"}, toolInput : ExtractInputs]
  /\ ret = NoCall
  /\ injectedSessions = {}

ExtractUrlFromContext ==
  /\ call.op = "extractUrlFromContext"
  /\ ret = NoCall
  /\ ret' = [op |-> "extractUrlFromContext",
             value |-> extractUrlFromContext(call.toolInput)]
  /\ UNCHANGED <<config, state, call, injectedSessions>>

NextExtract == ExtractUrlFromContext

SpecExtract == InitExtract /\ [][NextExtract]_vars

(***************************************************************************)
(* Properties of check(command, tier), under SpecCheck                     *)
(***************************************************************************)
\* pattern occurs in command, letters compared without regard to case
ContainsIgnoringCase(command, pattern) ==
  \E i \in 0..(Len(command) - Len(pattern)) :
     \A k \in 1..Len(pattern) :
        toLowerChar(command[i + k]) = toLowerChar(pattern[k])

\* positions of the patterns of list that occur in command
Occurring(command, list) ==
  {i \in 1..Len(list) : ContainsIgnoringCase(command, list[i])}

Checked == call.op = "check" /\ ret.op = "check"

TierRank(tier) ==
  CASE tier = "permissive" -> 0
    [] tier = "cautious" -> 1
    [] tier = "restricted" -> 2
    [] tier = "lockdown" -> 3

\* C1: a command that contains an always-blocked pattern (letters compared
\* without regard to case) is refused at every tier value, known or not, and
\* the result names the first such pattern in configured order.
C1_AlwaysBlockedAtEveryTier ==
  Checked =>
    LET hits == Occurring(call.command, config.shellRestrictions.alwaysBlocked) IN
    hits # {} =>
      /\ ~ret.value.allowed
      /\ ret.value.matchedPattern =
           config.shellRestrictions.alwaysBlocked[
             CHOOSE i \in hits : \A j \in hits : i <= j]

\* a permissive-tier call whose command holds both always-blocked patterns,
\* the second-configured one first in the command, in mixed case
C1_Witness ==
  /\ Checked
  /\ call.tier = "permissive"
  /\ call.command = <<"/", "r", "/">>
  /\ Occurring(call.command, config.shellRestrictions.alwaysBlocked) = {1, 2}
  /\ ~ret.value.allowed

\* C5 (as claimed): a command blocked at one tier is blocked at every more
\* restrictive tier, and a command that contains a dangerous pattern is
\* blocked at cautious, restricted and lockdown.
C5_RestrictionMonotone ==
  (Checked /\ call.tier \in Tiers) =>
    /\ ~ret.value.allowed =>
         \A t \in Tiers :
            TierRank(t) > TierRank(call.tier) =>
               ~check(config.shellRestrictions, call.command, t).allowed
    /\ ( /\ Occurring(call.command,
                      config.shellRestrictions.dangerousCommands) # {}
         /\ call.tier # "permissive" )
         => ~ret.value.allowed

HasLit(reason, text) == \E i \in 1..Len(reason) : reason[i] = Lit(text)

\* C6: at lockdown every command is refused; when no always-blocked pattern
\* occurs in it the reason carries LOCKDOWN and differs from the reason the
\* same command gets at any other tier value.
C6_LockdownBlocksAll ==
  (Checked /\ call.tier = "lockdown") =>
    /\ ~ret.value.allowed
    /\ Occurring(call.command, config.shellRestrictions.alwaysBlocked) = {} =>
         /\ HasLit(ret.value.reason, "LOCKDOWN")
         /\ \A t \in (Tiers \cup {UnknownTier}) \ {"lockdown"} :
               check(config.shellRestrictions, call.command, t).reason
                 # ret.value.reason

\* a lockdown call for a command the restricted tier would let through
C6_Witness ==
  /\ Checked
  /\ call.tier = "lockdown"
  /\ call.command = <<"l", " ", "l">>
  /\ check(config.shellRestrictions, call.command, "restricted").allowed
  /\ ~ret.value.allowed
  /\ HasLit(ret.value.reason, "LOCKDOWN")

\* the first whitespace-delimited word of s, empty if s has none
FirstWord(s) ==
  IF \A i \in 1..Len(s) : IsSpace(s[i]) THEN <<>>
  ELSE LET a == CHOOSE i \in 1..Len(s) :
                  ~IsSpace(s[i]) /\ \A j \in 1..(i - 1) : IsSpace(s[j])
           b == CHOOSE i \in a..Len(s) :
                  /\ \A j \in a..i : ~IsSpace(s[j])
                  /\ i = Len(s) \/ IsSpace(s[i + 1])
       IN  SubSeq(s, a, b)

\* the part of a command before its first ; & or |
BeforeChain(command) ==
  IF \A i \in 1..Len(command) : command[i] \notin {";", "&", "|"} THEN command
  ELSE SubSeq(command, 1,
              (CHOOSE i \in 1..Len(command) :
                 /\ command[i] \in {";", "&", "|"}
                 /\ \A j \in 1..(i - 1) : command[j] \notin {";", "&", "|"}) - 1)

Lowered(s) == [i \in 1..Len(s) |-> toLowerChar(s[i])]

\* the base executable token of a command
BaseToken(command) == Lowered(FirstWord(BeforeChain(command)))

Diagnostic ==
  /\ HasLit(ret.value.reason, "Unknown restriction tier: ")
  /\ HasLit(ret.value.reason, call.tier)
  /\ \A t \in Tiers :
        check(config.shellRestrictions, call.command, t).reason
          # ret.value.reason

\* C21 (as claimed): for a tier value that is none of the four, check
\* refuses every command with a diagnostic reason that names the tier and
\* differs from the reasons of the known tiers.
C21_UnknownTierDiagnostic ==
  (Checked /\ call.tier \notin Tiers) =>
    /\ ~ret.value.allowed
    /\ Diagnostic

\* C21 (amended): for such a tier value check refuses every command; the
\* reason is that diagnostic when no always-blocked pattern occurs in the
\* command, and the always-blocked reason with the first occurring pattern
\* when one does.
C21_UnknownTierFailsClosed ==
  (Checked /\ call.tier \notin Tiers) =>
    LET hits == Occurring(call.command, config.shellRestrictions.alwaysBlocked) IN
    /\ ~ret.value.allowed
    /\ hits = {} => Diagnostic
    /\ hits # {} =>
         /\ HasLit(ret.value.reason, "Command matches always-blocked pattern: ")
         /\ ret.value.matchedPattern =
              config.shellRestrictions.alwaysBlocked[
                CHOOSE i \in hits : \A j \in hits : i <= j]

\* a command the permissive tier allows, refused for the tier LOCKDOWN
\* written in upper case
C21_Witness ==
  /\ Checked
  /\ call.tier = "LOCKDOWN"
  /\ call.command = <<"l", " ", "l">>
  /\ check(config.shellRestrictions, call.command, "permissive").allowed
  /\ ~ret.value.allowed
  /\ HasLit(ret.value.reason, "LOCKDOWN")
  /\ ~HasLit(ret.value.reason, "Taint level critically low - ")

(***************************************************************************)
(* Properties of the tracker, under SpecTracker                            *)
(***************************************************************************)
\* C2 (as claimed): in every state reachable by applyPenalty, applyRecovery
\* and reset, the initial one included, minimumLevel <= getLevel() <= 100.
C2_LevelWithinFloorAndCeiling ==
  config.taint.minimumLevel <= getLevel /\ getLevel <= 100

\* C9: the stored tier is the tier resolveTier derives from the stored level.
C9_TierFollowsLevel ==
  getTier = resolveTier(getLevel, config.taint.thresholds)

\* an operation has just moved the tracker into another tier
C9_Witness ==
  /\ call.op \in {"applyPenalty", "applyRecovery"}
  /\ call.before.tier # getTier
  /\ call.before.level # getLevel
  /\ getTier = resolveTier(getLevel, config.taint.thresholds)

\* C10: applyPenalty leaves the level at max(minimumLevel, level - penalty),
\* the tier at the one derived from that level, and returns a penalty event
\* with the level before the call, the level after it and the tier after it.
C10_ApplyPenalty ==
  (call.op = "applyPenalty" /\ ret.op = "applyPenalty") =>
    /\ getLevel = Max(config.taint.minimumLevel,
                      call.before.level - config.taint.penaltyPerUntrustedUrl)
    /\ getTier = resolveTier(getLevel, config.taint.thresholds)
    /\ ret.value.type = "penalty"
    /\ ret.value.previousLevel = call.before.level
    /\ ret.value.newLevel = getLevel
    /\ ret.value.tier = getTier

\* a penalty larger than what was left above the floor
C10_Witness ==
  /\ call.op = "applyPenalty"
  /\ ret.op = "applyPenalty"
  /\ call.before.level > config.taint.minimumLevel
  /\ call.before.level - config.taint.penaltyPerUntrustedUrl
       < config.taint.minimumLevel
  /\ getLevel = config.taint.minimumLevel
  /\ ret.value.newLevel = config.taint.minimumLevel

Mutated == call.op \in {"applyPenalty", "applyRecovery"} /\ ret.op = call.op

\* C11 (as claimed): applyRecovery with a configured amount r > 0 leaves the
\* level at min(100, level + r) and the tier at the one derived from it, and
\* returns a recovery event with amount r, the level before the call and
\* the level after it.
C11_ApplyRecovery ==
  ( /\ call.op = "applyRecovery"
    /\ ret.op = "applyRecovery"
    /\ config.taint.recoveryPerTrustedUrl > 0 )
  =>
    /\ getLevel = Min(100, call.before.level + config.taint.recoveryPerTrustedUrl)
    /\ getTier = resolveTier(getLevel, config.taint.thresholds)
    /\ ret.value.type = "recovery"
    /\ ret.value.amount = config.taint.recoveryPerTrustedUrl
    /\ ret.value.previousLevel = call.before.level
    /\ ret.value.newLevel = getLevel

\* C12 (as claimed): the history is empty at construction and after reset,
\* and every applyPenalty or applyRecovery call, a recovery of amount 0
\* included, appends exactly one event, the one it returns, of its own type.
C12_HistoryHasEveryCall ==
  /\ call.op \in {"none", "reset"} => state.events = <<>>
  /\ Mutated =>
       /\ state.events = Append(call.before.events, ret.value)
       /\ ret.value.type =
            (IF call.op = "applyPenalty" THEN "penalty" ELSE "recovery")

\* C13: the history is a chain from the configured initial level to the
\* current level.
C13_HistoryIsChain ==
  LET events == state.events
      n == Len(events)
  IN  n > 0 =>
        /\ events[1].previousLevel = config.taint.initialLevel
        /\ \A i \in 2..n : events[i].previousLevel = events[i - 1].newLevel
        /\ events[n].newLevel = getLevel

\* a history of penalties and recoveries that moved the level down and up,
\* built after a reset
C13_Witness ==
  /\ Len(state.events) >= 3
  /\ \E i, j \in 1..Len(state.events) :
        /\ state.events[i].type = "penalty"
        /\ state.events[i].newLevel < state.events[i].previousLevel
        /\ state.events[j].type = "recovery"
        /\ state.events[j].newLevel > state.events[j].previousLevel
  /\ state.events[1].previousLevel = config.taint.initialLevel
  /\ state.events[Len(state.events)].newLevel = getLevel
  /\ getLevel # config.taint.initialLevel

\* C14: with a recovery amount of 0, applyRecovery leaves level and tier as
\* they were and returns a recovery event of amount 0 whose previousLevel
\* and newLevel are the current level.
C14_ZeroRecoveryIsNoOp ==
  ( /\ call.op = "applyRecovery"
    /\ ret.op = "applyRecovery"
    /\ config.taint.recoveryPerTrustedUrl = 0 )
  =>
    /\ getLevel = call.before.level
    /\ getTier = call.before.tier
    /\ ret.value.type = "recovery"
    /\ ret.value.amount = 0
    /\ ret.value.previousLevel = getLevel
    /\ ret.value.newLevel = getLevel

\* a zero recovery on a tracker that penalties have moved out of its
\* initial tier
C14_Witness ==
  /\ call.op = "applyRecovery"
  /\ ret.op = "applyRecovery"
  /\ config.taint.recoveryPerTrustedUrl = 0
  /\ Len(state.events) >= 2
  /\ getLevel < config.taint.initialLevel
  /\ getTier # resolveTier(config.taint.initialLevel, config.taint.thresholds)
  /\ ret.value.amount = 0
  /\ ret.value.newLevel = call.before.level

\* C15 (as claimed): with a recovery amount of 0, no applyPenalty or
\* applyRecovery call raises the level or moves the tier to a more
\* permissive one.
C15_TrustNeverRecovers ==
  (Mutated /\ config.taint.recoveryPerTrustedUrl = 0) =>
    /\ getLevel <= call.before.level
    /\ TierRank(getTier) >= TierRank(call.before.tier)

\* C23: with penalty and recovery both m > 0, a penalty followed at once by
\* a recovery leaves the level where it was before the penalty if
\* level - m >= minimumLevel, and at min(100, minimumLevel + m) if the
\* penalty was cut off at the floor.
C23_PenaltyThenRecovery ==
  LET m == config.taint.penaltyPerUntrustedUrl
      events == state.events
      n == Len(events)
  IN  (m > 0 /\ config.taint.recoveryPerTrustedUrl = m) =>
        \A i \in 2..n :
           (events[i - 1].type = "penalty" /\ events[i].type = "recovery") =>
              /\ events[i].newLevel =
                   (IF events[i - 1].previousLevel - m >= config.taint.minimumLevel
                    THEN events[i - 1].previousLevel
                    ELSE Min(100, config.taint.minimumLevel + m))
              /\ i = n => getLevel = events[i].newLevel

\* two penalty-recovery pairs, the first cut off at the floor, the second not
C23_Witness ==
  /\ config.taint.penaltyPerUntrustedUrl = 30
  /\ config.taint.recoveryPerTrustedUrl = 30
  /\ call.op = "applyRecovery"
  /\ Len(state.events) = 4
  /\ state.events[1].type = "penalty"
  /\ state.events[1].previousLevel - 30 < config.taint.minimumLevel
  /\ state.events[2].type = "recovery"
  /\ state.events[2].newLevel # state.events[1].previousLevel
  /\ state.events[3].type = "penalty"
  /\ state.events[3].previousLevel - 30 >= config.taint.minimumLevel
  /\ state.events[4].type = "recovery"
  /\ getLevel = state.events[3].previousLevel

\* C24: after reset the tracker is the one createTaintTracker builds for the
\* configuration: level initialLevel, the tier resolved from it, no
\* history. Level, tier and history are all the state the operations read,
\* so what follows a reset is what follows a construction.
C24_ResetIsFresh ==
  (call.op = "reset" /\ ret.op = "reset") =>
    /\ state = createTaintTracker(config.taint)
    /\ getLevel = config.taint.initialLevel
    /\ getTier = resolveTier(config.taint.initialLevel, config.taint.thresholds)
    /\ state.events = <<>>

\* a reset of a tracker that had a history and had left its initial tier
C24_Witness ==
  /\ call.op = "reset"
  /\ ret.op = "reset"
  /\ Len(call.before.events) >= 3
  /\ call.before.level # config.taint.initialLevel
  /\ call.before.tier # getTier
  /\ state.events = <<>>

(***************************************************************************)
(* The default configuration, under SpecDefault                            *)
(***************************************************************************)
\* C17: with the default configuration every untrusted access, and nothing
\* else, adds one event; after k of them the level is max(0, 100 - 10k); the
\* tier is permissive up to k = 2, becomes cautious at the third (level
\* 70), is restricted at k = 6 (level 40) and is lockdown with level 0 from
\* k = 10 on.
C17_DefaultDegradation ==
  LET k == Len(state.events) IN
  /\ (call.op = "beforeToolCall" /\ ret.op = "beforeToolCall") =>
        Len(state.events) = Len(call.before.events) +
          (IF urlCheck(config.trustedUrls, call.context.toolInput).trusted
           THEN 0 ELSE 1)
  /\ getLevel = Max(0, 100 - 10 * k)
  /\ k <= 2 => getTier = "permissive"
  /\ k = 3 => getLevel = 70 /\ getTier = "cautious"
  /\ k = 6 => getLevel = 40 /\ getTier = "restricted"
  /\ k >= 10 => getLevel = 0 /\ getTier = "lockdown"

\* the eleventh untrusted access, made when the level was already 0
C17_Witness ==
  /\ call.op = "beforeToolCall"
  /\ ret.op = "beforeToolCall"
  /\ ret.trackerCalls = <<"applyPenalty">>
  /\ Len(state.events) = 11
  /\ call.before.level = 0
  /\ getLevel = 0
  /\ getTier = "lockdown"
  /\ state.events[3].tier = "cautious"
  /\ state.events[2].tier = "permissive"

(***************************************************************************)
(* Properties of resolveTier, under SpecResolve                            *)
(***************************************************************************)
Resolved == call.op = "resolveTier" /\ ret.op = "resolveTier"

\* positions of the ranges of a threshold list that contain the level
Containing(thresholds, s) ==
  {i \in 1..Len(thresholds) :
     thresholds[i].minTaint <= s /\ s <= thresholds[i].maxTaint}

\* every level of 0..100 lies in exactly one range
NonOverlappingCover(thresholds) ==
  \A s \in 0..100 : Cardinality(Containing(thresholds, s)) = 1

\* a range that lies higher never has a more restrictive tier
TiersInOrder(thresholds) ==
  \A i, j \in 1..Len(thresholds) :
     thresholds[i].minTaint <= thresholds[j].minTaint =>
        TierRank(thresholds[i].tier) >= TierRank(thresholds[j].tier)

\* the tier of the one range that contains s
TierOfRange(thresholds, s) ==
  thresholds[CHOOSE i \in Containing(thresholds, s) : TRUE].tier

C18_FallbackAtTheEnds ==
  (Resolved /\ Containing(call.thresholds, call.level) = {}) =>
    /\ call.level <= 0 => ret.value = "lockdown"
    /\ call.level >= 100 => ret.value = "permissive"

\* level 0 with the default ranges short of their lowest one
C18_Witness ==
  /\ Resolved
  /\ call.level = 0
  /\ call.thresholds = Without(DefaultThresholds, 4)
  /\ Containing(call.thresholds, call.level) = {}
  /\ ret.value = "lockdown"

\* C36 (as claimed): a level that no range contains resolves to lockdown
\* when every range begins above it and to permissive when every range
\* ends below it.
C36_FallbackOutsideRanges ==
  ( /\ Resolved
    /\ call.thresholds # <<>>
    /\ Containing(call.thresholds, call.level) = {} )
  =>
    /\ (\A i \in 1..Len(call.thresholds) :
          call.thresholds[i].minTaint > call.level)
         => ret.value = "lockdown"
    /\ (\A i \in 1..Len(call.thresholds) :
          call.thresholds[i].maxTaint < call.level)
         => ret.value = "permissive"

(***************************************************************************)
(* Properties of the before-tool-call hook, under Spec                     *)
(***************************************************************************)
Handled == call.op = "beforeToolCall" /\ ret.op = "beforeToolCall"

ShellCall ==
  /\ Handled
  /\ \E i \in 1..Len(config.shellRestrictions.toolNames) :
        toLowerCase(config.shellRestrictions.toolNames[i])
          = toLowerCase(call.context.toolName)

\* the non-blank command string a tool input carries, Null if none
CommandOf(toolInput) == extractCommand(toolInput)

\* C3: a shell call that carries a URL and a command is judged at the tier
\* the tracker has after the penalty or recovery for that URL.
C3_DecisionUsesUpdatedTier ==
  ( /\ ShellCall
    /\ config.global.enabled
    /\ ret.trackerCalls # <<>>
    /\ CommandOf(call.context.toolInput) # Null )
  =>
    /\ ret.value.block =
         ~check(config.shellRestrictions,
                CommandOf(call.context.toolInput), getTier).allowed
    /\ ret.value.block => ret.value.metadata.tier = getTier

\* the call itself moved the level from permissive into cautious and was
\* refused for a command the permissive tier lets through
C3_Witness ==
  /\ ShellCall
  /\ ret.trackerCalls = <<"applyPenalty">>
  /\ call.before.tier = "permissive"
  /\ getTier = "cautious"
  /\ CommandOf(call.context.toolInput) # Null
  /\ check(config.shellRestrictions,
           CommandOf(call.context.toolInput), "permissive").allowed
  /\ ret.value.block

\* C4 (as claimed): with the plugin enabled and the tracker in lockdown
\* (before the call and after it), every call of a shell tool is blocked,
\* with a reason and metadata.tier = lockdown, whatever its input.
C4_LockdownBlocksEveryShellCall ==
  ( /\ ShellCall
    /\ config.global.enabled
    /\ call.before.tier = "lockdown"
    /\ getTier = "lockdown" )
  =>
    /\ ret.value.block
    /\ ret.value.blockReason # NoReason
    /\ ret.value.metadata.tier = "lockdown"

\* C27: a call whose tool name is not a configured shell tool name, letter
\* case aside, is not blocked, whatever the tier and the input; a URL in
\* it is still counted.
C27_OnlyShellToolsBlocked ==
  (Handled /\ ~ShellCall) =>
    /\ ~ret.value.block
    /\ config.global.enabled =>
         ret.trackerCalls =
           (IF ~urlCheck(config.trustedUrls, call.context.toolInput).urlFound
            THEN <<>>
            ELSE IF urlCheck(config.trustedUrls, call.context.toolInput).trusted
            THEN <<"applyRecovery">> ELSE <<"applyPenalty">>)

\* a call of Bas, in lockdown, with an always-blocked command and an
\* untrusted URL: let through, and penalized
C27_Witness ==
  /\ Handled
  /\ call.context.toolName = <<"B", "a", "s">>
  /\ call.before.tier = "lockdown"
  /\ CommandOf(call.context.toolInput) = <<"r", "/">>
  /\ ret.trackerCalls = <<"applyPenalty">>
  /\ Len(state.events) = Len(call.before.events) + 1
  /\ ~ret.value.block

UrlStart(s, i) ==
  \E scheme \in {Http, Https} :
     /\ i + Len(scheme) <= Len(s)
     /\ SubSeq(s, i, i + Len(scheme) - 1) = scheme
     /\ s[i + Len(scheme)] \notin {" ", "\t", "\n", "\"", "'", "<", ">"}

\* no direct URL field holds a non-empty string and no command field holds an
\* embedded http(s) URL
NoResource(toolInput) ==
  /\ \A f \in {"url", "href", "link", "target", "src", "source", "uri", "endpoint"} :
        Get(toolInput, f).t # "string" \/ Get(toolInput, f).s = <<>>
  /\ \A f \in {"command", "cmd", "script", "input"} :
        Get(toolInput, f).t = "string" =>
          ~\E i \in 1..Len(Get(toolInput, f).s) : UrlStart(Get(toolInput, f).s, i)

\* C7: when the tool input holds no resource identifier the classifier
\* reports urlFound = false with trusted = true, the handler invokes no
\* tracker operation, and level, tier and history are as before the call.
C7_NoUrlNoTaintChange ==
  (Handled /\ NoResource(call.context.toolInput)) =>
    /\ ~urlCheck(config.trustedUrls, call.context.toolInput).urlFound
    /\ urlCheck(config.trustedUrls, call.context.toolInput).trusted
    /\ ret.trackerCalls = <<>>
    /\ state = call.before

\* a call without a resource, on a tracker that already has a history
C7_Witness ==
  /\ Handled
  /\ config.global.enabled
  /\ NoResource(call.context.toolInput)
  /\ Get(call.context.toolInput, "url") = Str(<<>>)
  /\ Len(state.events) >= 2
  /\ state = call.before

\* C8: with the plugin enabled a call in which a URL is found invokes
\* exactly one tracker operation, applyPenalty if the URL is untrusted and
\* applyRecovery if it is trusted, whatever the tool name; so after a run of
\* n penalties that began at level L the level is max(minimumLevel, L - n*penalty).
C8_OneTrackerOperationPerUrl ==
  /\ (Handled /\ config.global.enabled
        /\ ~NoResource(call.context.toolInput)) =>
       LET u == urlCheck(config.trustedUrls, call.context.toolInput) IN
       /\ u.urlFound
       /\ ret.trackerCalls =
            IF u.trusted THEN <<"applyRecovery">> ELSE <<"applyPenalty">>
       /\ ~u.trusted =>
            getLevel = Max(config.taint.minimumLevel,
                           call.before.level - config.taint.penaltyPerUntrustedUrl)
  /\ \A k \in 1..Len(state.events) :
       (\A j \in k..Len(state.events) : state.events[j].type = "penalty") =>
          getLevel = Max(config.taint.minimumLevel,
                         state.events[k].previousLevel
                           - (Len(state.events) - k + 1)
                               * config.taint.penaltyPerUntrustedUrl)

\* the fourth untrusted access in a row, by a tool that is not a shell tool,
\* with the level held at the floor
C8_Witness ==
  /\ Handled
  /\ ~ShellCall
  /\ ret.trackerCalls = <<"applyPenalty">>
  /\ Len(state.events) >= 4
  /\ \A j \in 1..Len(state.events) : state.events[j].type = "penalty"
  /\ state.events[1].previousLevel - 4 * config.taint.penaltyPerUntrustedUrl
       < config.taint.minimumLevel
  /\ getLevel = config.taint.minimumLevel

\* a resource is found and its host cannot be parsed
Unparseable(toolInput) ==
  /\ ~NoResource(toolInput)
  /\ extractDomain(extractUrlFromContext(toolInput)) = Null

\* C31: a resource that is found but whose host cannot be parsed is reported
\* as urlFound = true, trusted = false without domain and matchedPattern,
\* and the enabled handler applies exactly one penalty for it; no resource
\* is reported as urlFound = false, and an untrusted resource whose host was
\* parsed carries its domain.
C31_UnparseableIsUntrusted ==
  Handled =>
    LET u == urlCheck(config.trustedUrls, call.context.toolInput) IN
    /\ NoResource(call.context.toolInput) => ~u.urlFound
    /\ Unparseable(call.context.toolInput) =>
         /\ u.urlFound
         /\ ~u.trusted
         /\ u.domain = NoString
         /\ u.matchedPattern = NoString
         /\ config.global.enabled =>
              /\ ret.trackerCalls = <<"applyPenalty">>
              /\ Len(state.events) = Len(call.before.events) + 1
              /\ state.events[Len(state.events)].type = "penalty"
              /\ getLevel = Max(config.taint.minimumLevel,
                                call.before.level
                                  - config.taint.penaltyPerUntrustedUrl)
    /\ (~NoResource(call.context.toolInput)
          /\ ~Unparseable(call.context.toolInput) /\ ~u.trusted) =>
         /\ u.urlFound
         /\ u.domain # NoString

\* a call whose url field holds a scheme and nothing else, penalised once
C31_Witness ==
  /\ Handled
  /\ config.global.enabled
  /\ Get(call.context.toolInput, "url") = Str(UnparseableUrl)
  /\ ret.trackerCalls = <<"applyPenalty">>
  /\ Len(state.events) = Len(call.before.events) + 1
  /\ getLevel < call.before.level

(***************************************************************************)
(* Properties of the registered hooks, under SpecAgent                     *)
(***************************************************************************)
ToolCallDone == call.op = "beforeToolCall" /\ ret.op = "beforeToolCall"

AgentStartDone == call.op = "beforeAgentStart" /\ ret.op = "beforeAgentStart"

HasSession(context) == ~IsNull(context) /\ "sessionId" \in DOMAIN context

\* two runs of the handler decide alike
SameDecision(a, b) == a.result = b.result /\ a.state.tier = b.state.tier

\* C26 (as claimed): a tool call of one session leaves every tool call of
\* another session with the result, and the tier behind it, that it would
\* have had without it.
C26_SessionsIndependent ==
  (ToolCallDone /\ HasSession(call.context)) =>
    \A other \in SessionToolCalls :
       (HasSession(other) /\ other.sessionId # call.context.sessionId) =>
          SameDecision(beforeToolCallHandler(config, state, other),
                       beforeToolCallHandler(config, call.before, other))

\* the call reads a property of a missing value
Throws ==
  \/ IsNull(call.context)
  \/ /\ call.op = "beforeToolCall"
     /\ config.global.enabled
     /\ "toolName" \notin DOMAIN call.context

\* C28: neither handler rejects, and a call in which a step throws resolves
\* to block = false (before-tool-call) or to a result without
\* prependContext (before-agent-start).
C28_FailOpen ==
  (ToolCallDone \/ AgentStartDone) =>
    /\ ret.outcome = "resolved"
    /\ Throws =>
         /\ ret.caught
         /\ ToolCallDone => ret.value = Allow
         /\ AgentStartDone => ret.value = NoPrependContext

\* a tool call without a tool name: the penalty for its URL was applied
\* before isShellTool threw, and the call is let through
C28_Witness ==
  /\ ToolCallDone
  /\ ~IsNull(call.context)
  /\ "toolName" \notin DOMAIN call.context
  /\ ret.caught
  /\ ret.trackerCalls = <<"applyPenalty">>
  /\ state.level < call.before.level
  /\ state.tier = "lockdown"
  /\ ret.value = Allow

\* C29 (as claimed): with the plugin enabled, a before-agent-start call
\* that carries a session id returns prependContext exactly when no
\* earlier call carried that id, and the text gives the level and tier the
\* tracker has at that call.
C29_OncePerSession ==
  ( /\ AgentStartDone
    /\ config.global.enabled
    /\ HasSession(call.context)
    /\ call.context.sessionId # <<>> )
  =>
    /\ (ret.value # NoPrependContext)
         <=> (call.context.sessionId \notin call.startedBefore)
    /\ ret.value # NoPrependContext =>
         /\ ret.value.prependContext.taintLevel = getLevel
         /\ ret.value.prependContext.tier = tierToUpperCase(getTier)

\* C30: with global.enabled false a before-tool-call invocation returns
\* block = false and leaves level, tier and history alone, and a
\* before-agent-start invocation returns no prependContext and leaves the
\* set of injected sessions alone.
C30_DisabledDoesNothing ==
  ~config.global.enabled =>
    /\ ToolCallDone =>
         /\ ~ret.value.block
         /\ ret.trackerCalls = <<>>
         /\ state = call.before
    /\ AgentStartDone =>
         /\ ret.value = NoPrependContext
         /\ injectedSessions = call.injectedBefore
    /\ state = createTaintTracker(config.taint)
    /\ injectedSessions = {}

\* disabled: a shell call with an always-blocked command and an untrusted
\* URL, made after sessions were started
C30_Witness ==
  /\ ~config.global.enabled
  /\ ToolCallDone
  /\ HasSession(call.context)
  /\ call.context.toolName = <<"B", "a", "s", "h">>
  /\ CommandOf(call.context.toolInput) = <<"r", "/">>
  /\ ~NoResource(call.context.toolInput)
  /\ Started # {}
  /\ ~ret.value.block
  /\ state.events = <<>>

(***************************************************************************)
(* Properties of what getState and the mutating calls hand out, under      *)
(* SpecSnapshot                                                            *)
(***************************************************************************)
CallerWrites ==
  {"setSnapshotLevel", "popSnapshotEvents", "setSnapshotEvent",
   "setReturnedEvent"}

\* C25 (as claimed): a write by the caller to the object getState returned,
\* to its events list, to an event record in it or to an event a mutating
\* call returned leaves the tracker's level, tier and history as they were,
\* and a mutating call of the tracker leaves a snapshot taken earlier as it
\* was.
C25_SnapshotIndependent ==
  /\ call.op \in CallerWrites =>
       /\ getLevel = call.before.level
       /\ getTier = call.before.tier
       /\ state.events = call.before.events
  /\ (call.op \in {"applyPenalty", "applyRecovery"} /\ call.heldBefore.taken) =>
       snapshotValue(call.held, state)
         = snapshotValue(call.heldBefore, call.before)

(***************************************************************************)
(* Properties of the URL trust checker, under SpecTrust                    *)
(***************************************************************************)
Classified == call.op = "check" /\ ret.op = "check" /\ "matches" \in DOMAIN ret

\* the positions at which the list holds the pattern
PositionsOf(pattern) ==
  {i \in 1..Len(config.trustedUrls.patterns) :
     config.trustedUrls.patterns[i] = pattern}

\* the domain without regard to case
Folded(domain) == [i \in 1..Len(domain) |-> toLowerChar(domain[i])]

\* a non-empty label without a dot, followed by the suffix
OneLabelThen(domain, suffix) ==
  \E k \in 1..Len(domain) :
     /\ \A j \in 1..k : domain[j] # "."
     /\ Folded(SubSeq(domain, k + 1, Len(domain))) = suffix

\* C32 (as claimed): the pattern *.g.c matches a domain exactly when the
\* domain is one non-empty label without a dot followed by .g.c, without
\* regard to case.
C32_StarIsOneLabel ==
  Classified =>
    \A i \in PositionsOf(StarPattern) :
       ret.matches[i] <=> OneLabelThen(call.domain, <<".", "g", ".", "c">>)

\* the stand-ins of docs.github.com, github.com and sub.docs.github.com
DocsDomain == <<"d", ".", "g", ".", "c">>

BareDomain == <<"g", ".", "c">>

SubDocsDomain == <<"d", ".", "d", ".", "g", ".", "c">>

\* C33 (as claimed): with the one pattern *.g.c the domain d.g.c is trusted
\* and g.c is not; with the one pattern **.g.c the domains d.g.c, g.c and
\* d.d.g.c are all trusted.
C33_StarAndDoubleStar ==
  Classified =>
    /\ config.trustedUrls.patterns = <<StarPattern>> =>
         /\ call.domain = DocsDomain => ret.value.trusted
         /\ call.domain = BareDomain => ~ret.value.trusted
    /\ config.trustedUrls.patterns = <<DoubleStarPattern>> =>
         /\ call.domain \in {DocsDomain, BareDomain, SubDocsDomain} =>
              ret.value.trusted

\* every ordering of a list
Orderings(list) ==
  {[i \in 1..Len(list) |-> list[p[i]]] :
     p \in {q \in [1..Len(list) -> 1..Len(list)] :
              \A i, j \in 1..Len(list) : q[i] = q[j] => i = j}}

\* C34: for a URL whose host was parsed, check reports trusted exactly when
\* isDomainTrusted holds of the domain, that is when some pattern of the
\* list matches the whole domain; the verdict is the same under every
\* ordering of the patterns; and matchedPattern is present exactly when the
\* result is trusted with a URL found.
C34_VerdictDependsOnDomainOnly ==
  Classified =>
    /\ ret.value.domain # NoString =>
         /\ ret.value.trusted <=> ret.isDomainTrusted
         /\ ret.value.trusted <=>
              \E i \in 1..Len(config.trustedUrls.patterns) : ret.matches[i]
    /\ \A ps \in Orderings(config.trustedUrls.patterns) :
         urlCheck([patterns |-> ps], UrlInput(call.domain)).trusted
           = ret.value.trusted
    /\ (ret.value.matchedPattern # NoString)
         <=> (ret.value.trusted /\ ret.value.urlFound)

\* a domain with an upper-case label that only the second pattern matches
C34_Witness ==
  /\ Classified
  /\ config.trustedUrls.patterns = <<ExactPattern, StarPattern>>
  /\ call.domain = <<"d", ".", "G", ".", "c">>
  /\ ret.value.domain = DocsDomain
  /\ ret.value.trusted
  /\ ret.value.matchedPattern = StarPattern
  /\ ret.matches = <<FALSE, TRUE>>

(***************************************************************************)
(* Properties of extractUrlFromContext, under SpecExtract                  *)
(***************************************************************************)
Extracted ==
  call.op = "extractUrlFromContext" /\ ret.op = "extractUrlFromContext"

DirectOrder ==
  <<"url", "href", "link", "target", "src", "source", "uri", "endpoint">>

EmbeddedOrder == <<"command", "cmd", "script", "input">>

HoldsText(toolInput, f) ==
  Get(toolInput, f).t = "string" /\ Get(toolInput, f).s # <<>>

HoldsUrl(toolInput, f) ==
  /\ Get(toolInput, f).t = "string"
  /\ \E i \in 1..Len(Get(toolInput, f).s) : UrlStart(Get(toolInput, f).s, i)

\* the first position of a list that satisfies the set of positions
First(positions) == CHOOSE i \in positions : \A j \in positions : i <= j

\* the first http(s) URL in s: from the first place a URL starts up to the
\* next white space, quote or angle bracket
EmbeddedUrl(s) ==
  LET i == First({k \in 1..Len(s) : UrlStart(s, k)})
      stops == {k \in (i + 1)..Len(s) :
                  s[k] \in {" ", "\t", "\n", "\"", "'", "<", ">"}}
  IN  SubSeq(s, i, IF stops = {} THEN Len(s) ELSE First(stops) - 1)

\* C35: extractUrlFromContext returns the value of the first direct URL
\* field, in the order url, href, link, target, src, source, uri, endpoint,
\* that holds a non-empty string; when none does, the first http(s) URL
\* embedded in the first of command, cmd, script, input that contains one;
\* and null when there is neither.
C35_DirectFieldFirst ==
  Extracted =>
    LET direct == {i \in 1..Len(DirectOrder) :
                     HoldsText(call.toolInput, DirectOrder[i])}
        embedded == {i \in 1..Len(EmbeddedOrder) :
                       HoldsUrl(call.toolInput, EmbeddedOrder[i])}
    IN  IF direct # {}
        THEN ret.value = Get(call.toolInput, DirectOrder[First(direct)]).s
        ELSE IF embedded # {}
        THEN ret.value
               = EmbeddedUrl(Get(call.toolInput,
                                 EmbeddedOrder[First(embedded)]).s)
        ELSE ret.value = Null

\* the last direct field wins over a URL in the first command field: url
\* holds no string and href the empty string
C35_Witness ==
  /\ Extracted
  /\ Get(call.toolInput, "url") = NotAString
  /\ Get(call.toolInput, "href") = Str(<<>>)
  /\ Get(call.toolInput, "endpoint") = Str(<<"e">>)
  /\ HoldsUrl(call.toolInput, "command")
  /\ ret.value = <<"e">>

(***************************************************************************)
(* Properties of invocations in flight together, under SpecConcurrent      *)
(***************************************************************************)
\* the handler run on the first n contexts one after another, from the
\* tracker as created: the tracker it leaves
RECURSIVE TrackerAfter(_)
TrackerAfter(n) ==
  IF n = 0 THEN createTaintTracker(config.taint)
  ELSE beforeToolCall(config, TrackerAfter(n - 1),
                      call.calls[n].context).state

InFlight == {i \in 1..Len(call.calls) : call.calls[i].pc # "done"}

\* C37: the classify, update and evaluate sequences of invocations started
\* together do not interleave: at most one invocation is between its entry
\* and its return, every finished invocation has the decision it has when
\* the calls run one after another in invocation order, and when all have
\* finished level, tier and history are those of that run.
C37_InvocationsDoNotInterleave ==
  call.op = "invocations" =>
    /\ Cardinality(InFlight) <= 1
    /\ \A i \in 1..Len(call.calls) :
         call.calls[i].pc = "done" =>
           call.calls[i].result
             = beforeToolCall(config, TrackerAfter(i - 1),
                              call.calls[i].context).result
    /\ InFlight = {} => state = TrackerAfter(Len(call.calls))

\* three finished invocations: a shell command that was allowed before an
\* untrusted URL lowered the tier and is blocked after it
C37_Witness ==
  /\ call.op = "invocations"
  /\ Len(call.calls) = 3
  /\ InFlight = {}
  /\ call.calls[1].context = call.calls[3].context
  /\ call.calls[1].context.toolName = <<"B","a","s","h">>
  /\ ~call.calls[1].result.block
  /\ call.calls[2].urlCheck.urlFound
  /\ ~call.calls[2].urlCheck.trusted
  /\ call.calls[3].result.block
  /\ Len(state.events) = 1

(***************************************************************************)
(* Properties of the plugin without recovery, under SpecFloor              *)
(***************************************************************************)
\* the last call was made by a shell tool and carried a command
ShellCommandCall ==
  /\ ShellCall
  /\ CommandOf(call.context.toolInput) # Null

\* C38: with a positive penalty and no recovery, untrusted URLs being
\* accessed again and again, the level comes to equal minimumLevel and stays
\* there under every further call; with the default configuration the tier
\* is then lockdown and every call that carries a shell command is blocked.
C38_FloorIsAbsorbing ==
  <>[]( /\ getLevel = config.taint.minimumLevel
        /\ config.taint = DefaultTaint =>
             /\ getTier = "lockdown"
             /\ ShellCommandCall => ret.value.block )

\* the default configuration: a shell command that the other tiers allow,
\* refused in a call made when the level was 0 already
C38_Witness ==
  /\ config.taint = DefaultTaint
  /\ ShellCommandCall
  /\ call.context \in OtherToolCalls
  /\ call.before.level = config.taint.minimumLevel
  /\ getLevel = config.taint.minimumLevel
  /\ Len(state.events) = 10
  /\ getTier = "lockdown"
  /\ ret.value.block

(***************************************************************************)
(* Properties of the plugin lifecycle, under SpecLifecycle                 *)
(***************************************************************************)
\* the hooks the last call registered
Registered ==
  SubSeq(state.hooks, Len(call.before.hooks) + 1, Len(state.hooks))

RegisteredAs(name) ==
  {i \in 1..Len(Registered) : Registered[i].hookName = name}

\* C39: an enabled activation registers one before_tool_call and one
\* before_agent_start hook, both on one new tracker that has the configured
\* initial level and no history; an activation with enabled = false
\* registers none and leaves getTaintState() null; an activate while the
\* plugin is active registers nothing and keeps tracker and level; after
\* deactivate isActive() is false and getTaintState() is null, and a
\* deactivate of an inactive plugin changes nothing.
C39_Lifecycle ==
  /\ call.op = "activate" =>
       /\ isActive(state)
       /\ call.before.initialized =>
            /\ Registered = <<>>
            /\ state.taintTracker = call.before.taintTracker
            /\ getTaintState(state) = getTaintState(call.before)
            /\ state.trackers = call.before.trackers
       /\ (~call.before.initialized /\ ~call.enabled) =>
            /\ Registered = <<>>
            /\ getTaintState(state) = Null
       /\ (~call.before.initialized /\ call.enabled) =>
            /\ Len(Registered) = 2
            /\ Cardinality(RegisteredAs("before_tool_call")) = 1
            /\ Cardinality(RegisteredAs("before_agent_start")) = 1
            /\ \A i \in 1..2 : Registered[i].taintTracker = state.taintTracker
            /\ state.taintTracker = Len(call.before.trackers) + 1
            /\ \A i \in 1..Len(call.before.hooks) :
                  call.before.hooks[i].taintTracker # state.taintTracker
            /\ getTaintState(state).level = config.taint.initialLevel
            /\ state.trackers[state.taintTracker].events = <<>>
  /\ call.op = "deactivate" =>
       /\ ~isActive(state)
       /\ getTaintState(state) = Null
       /\ ~call.before.initialized => state = call.before

\* an enabled activation after a deactivate: the tracker of the first
\* activation was lowered by a tool call, the new one starts afresh
C39_Witness ==
  /\ call.op = "activate"
  /\ call.enabled
  /\ ~call.before.initialized
  /\ Len(state.hooks) = 4
  /\ state.taintTracker = 2
  /\ state.trackers[1].level < config.taint.initialLevel
  /\ getTaintState(state).level = config.taint.initialLevel

====
